---- MODULE Spec2Model ----
(***************************************************************************)
(* envsetter: the configuration writer (src/src/writer.js), the scanner    *)
(* and the configuration parser (src/src/scanner.js), reconciliation and   *)
(* the prompt loop (src/src/ui.js) and the orchestration of one folder     *)
(* (src/src/index.js).                                                     *)
(*                                                                         *)
(* A JavaScript string is modelled as a sequence of one-character strings, *)
(* a file as its existence flag and its content, a Map as the sequence of  *)
(* its entries in insertion order.                                         *)
(***************************************************************************)
EXTENDS Integers, Sequences, FiniteSets, TLC

VARIABLES
  fileExists,   \* fs.existsSync(fullPath) of the target env file
  fileContent,  \* the content of the target env file on disk
  prevExists,   \* fileExists as the last writeEnvFile call found it
  prevContent,  \* fileContent as the last writeEnvFile call found it
  lastVars,     \* the newVars argument of the last writeEnvFile call
  ret,          \* the number the last writeEnvFile call returned (-1: no call yet)
  calls,        \* number of writeEnvFile calls made so far
  arg,          \* the value handed to the onSetValue callback
  pc,           \* where processFolder stands
  foundVars,    \* the scan result: a Map of variable name to the files naming it
  existingEnv,  \* the Map parseExistingEnv returned, as set since
  counts,       \* what showScanResult returned
  varList,      \* promptForValues: the sorted list of the variables to fill
  idx,          \* promptForValues: the loop index i
  results,      \* promptForValues: the Map of the values accepted
  savedCount,   \* processFolder: savedCount
  lastInput,    \* the text of the last answer to a value prompt
  lastIdx,      \* the loop index at which the last answer was given
  rootReadable, \* whether the folder scanned is there and can be read
  isDeepScan,   \* processFolder: isDeepScan
  scanFiles,    \* the files of the folder scanned, each a name and a content
  exampleFiles, \* the .env.example of the working directory and of the folder processed
  folder,       \* the folder processed: the working directory or another folder
  syncLog,      \* the syncToEnvExample calls made: keys, number returned, files before and after
  tree,         \* the directories under the working directory: path to readable, env files, entries
  walkStack,    \* discoverEnvFolders: the walk calls in progress, innermost first
  walkLog,      \* discoverEnvFolders: the walk calls made, each a directory and a depth
  folders,      \* discoverEnvFolders: results, then the folders of main
  phases,       \* main: where the processFolder call of each folder stands
  mainIdx,      \* main: the index i of the loop over the folders
  awaiting,     \* main: whether main waits for the processFolder call it made
  totalSaved,   \* main: totalSaved
  pasted,       \* askBulkPaste: content, the lines collected joined by newlines
  bulkVars,     \* processFolder: bulkVars, the Map askBulkPaste resolved with
  reported      \* showSummary: the saved count shown, -1 before it is shown

fileVars == <<fileExists, fileContent, prevExists, prevContent, lastVars, ret>>
sessVars == <<pc, foundVars, existingEnv, counts, varList, idx, results,
              savedCount, lastInput, lastIdx>>

scanVars == <<rootReadable, isDeepScan, scanFiles>>

syncVars == <<exampleFiles, folder, syncLog>>

walkVars == <<tree, walkStack, walkLog, folders>>

mainVars == <<phases, mainIdx, awaiting, totalSaved>>

pasteVars == <<pasted, bulkVars>>

summaryVars == <<reported>>

vars == <<fileExists, fileContent, prevExists, prevContent, lastVars, ret, calls,
          arg, pc, foundVars, existingEnv, counts, varList, idx, results,
          savedCount, lastInput, lastIdx, rootReadable, isDeepScan, scanFiles,
          exampleFiles, folder, syncLog,
          tree, walkStack, walkLog, folders,
          phases, mainIdx, awaiting, totalSaved,
          pasted, bulkVars,
          reported>>

(***************************************************************************)
(* Bounds of the model.                                                    *)
(***************************************************************************)
MaxLines == 2    \* lines of the initial file
MaxVars == 2     \* entries of one newVars map (at most one per key of Keys)
MaxCalls == 2    \* writeEnvFile calls in one behaviour
MaxValLen == 2   \* characters of a formatted value
MaxSaves == 2    \* values saved through the onSetValue callback in one behaviour
MaxRefs == 1     \* references in a code file, lines in an env file scanned
MaxSyncs == 2    \* syncToEnvExample calls in one behaviour

(***************************************************************************)
(* Characters.                                                             *)
(***************************************************************************)
NL == "\n"
CR == "\r"
TAB == "\t"
SP == " "
DQ == "\""
SQ == "'"
BS == "\\"
BT == "<backtick>"   \* the backtick character, which a TLA+ string cannot hold
EQ == "="
HASH == "#"
DOLLAR == "$"
BANG == "!"

\* What the regular expression class \s and String.prototype.trim treat as
\* white space, among the characters of the model.
WhiteSpace == {SP, TAB, CR, NL}

\* Characters of the values the format specification draws from.
FmtChars == {"a", "n", SP, TAB, HASH, EQ, BS, DOLLAR, DQ, SQ, BT, BANG, NL}

(***************************************************************************)
(* String primitives of the JavaScript runtime.                            *)
(***************************************************************************)
\* s.indexOf(c): 0-based index of the first c, -1 when there is none.
RECURSIVE indexFrom(_, _, _)
indexFrom(s, c, i) ==
  IF i > Len(s) THEN -1
  ELSE IF s[i] = c THEN i - 1
  ELSE indexFrom(s, c, i + 1)

indexOf(s, c) == indexFrom(s, c, 1)

\* s.substring(a, b) and s.substring(a), 0-based, end exclusive.
substring(s, a, b) == SubSeq(s, a + 1, b)
substringFrom(s, a) == SubSeq(s, a + 1, Len(s))

\* s.trim()
RECURSIVE trimStart(_)
trimStart(s) ==
  IF s # <<>> /\ s[1] \in WhiteSpace THEN trimStart(Tail(s)) ELSE s

RECURSIVE trimEnd(_)
trimEnd(s) ==
  IF s # <<>> /\ s[Len(s)] \in WhiteSpace
  THEN trimEnd(SubSeq(s, 1, Len(s) - 1))
  ELSE s

trim(s) == trimEnd(trimStart(s))

\* s.startsWith(c), s.endsWith(c) for a one-character c
startsWith(s, c) == Len(s) >= 1 /\ s[1] = c
endsWith(s, c) == Len(s) >= 1 /\ s[Len(s)] = c

\* s.split("\n"): the empty string splits into one empty line.
RECURSIVE split(_)
split(s) ==
  LET i == indexOf(s, NL)
  IN  IF i = -1 THEN <<s>>
      ELSE <<substring(s, 0, i)>> \o split(substringFrom(s, i + 1))

\* lines.join("\n")
RECURSIVE join(_)
join(lines) ==
  IF lines = <<>> THEN <<>>
  ELSE IF Len(lines) = 1 THEN lines[1]
  ELSE lines[1] \o <<NL>> \o join(Tail(lines))

\* s.replace(/c/g, rep): every c replaced by the string rep.
RECURSIVE replaceAll(_, _, _)
replaceAll(s, c, rep) ==
  IF s = <<>> THEN <<>>
  ELSE (IF s[1] = c THEN rep ELSE <<s[1]>>) \o replaceAll(Tail(s), c, rep)

\* s.replace(/\n+$/, ""): the trailing run of newlines removed.
RECURSIVE stripTrailingNewlines(_)
stripTrailingNewlines(s) ==
  IF s # <<>> /\ s[Len(s)] = NL
  THEN stripTrailingNewlines(SubSeq(s, 1, Len(s) - 1))
  ELSE s

(***************************************************************************)
(* Map operations on a sequence of [key, value] entries.                   *)
(***************************************************************************)
mapHas(m, k) == \E i \in 1..Len(m) : m[i].key = k
mapGet(m, k) == m[CHOOSE i \in 1..Len(m) : m[i].key = k].value
mapKeys(m) == {m[i].key : i \in 1..Len(m)}

\* existing.set(key, value): a present key keeps its position.
mapSet(m, k, v) ==
  IF mapHas(m, k)
  THEN [i \in 1..Len(m) |-> IF m[i].key = k THEN [key |-> k, value |-> v] ELSE m[i]]
  ELSE Append(m, [key |-> k, value |-> v])

(***************************************************************************)
(* Value formatting (writer.js).  Every value of the model is a string,    *)
(* so the guard of line 146, which holds of null and undefined only, is    *)
(* false throughout.                                                       *)
(***************************************************************************)
\* The character class of the regular expression of needsQuotes.
QuoteClass == WhiteSpace \cup {HASH, EQ, BS, DOLLAR, DQ, SQ, BT, BANG}

needsQuotes(value) ==
  IF value = <<>> THEN FALSE
  ELSE (\E i \in 1..Len(value) : value[i] \in QuoteClass)
       \/ (\E i \in 1..Len(value) : value[i] = NL)

\* formatValue with the guard "if (!value)": the empty string is written
\* as a pair of quotes.
formatValueEmptyQuoted(value) ==
  IF value = <<>> THEN <<DQ, DQ>>
  ELSE IF needsQuotes(value)
  THEN <<DQ>> \o replaceAll(replaceAll(replaceAll(value, BS, <<BS, BS>>),
                                       DQ, <<BS, DQ>>),
                            NL, <<BS, "n">>) \o <<DQ>>
  ELSE value

\* formatValue that escapes the double quotes before the backslashes.
formatValueQuotesFirst(value) ==
  IF needsQuotes(value)
  THEN <<DQ>> \o replaceAll(replaceAll(replaceAll(value, DQ, <<BS, DQ>>),
                                       BS, <<BS, BS>>),
                            NL, <<BS, "n">>) \o <<DQ>>
  ELSE value

formatValue(value) ==
  IF needsQuotes(value)
  THEN LET escaped ==
             replaceAll(replaceAll(replaceAll(value, BS, <<BS, BS>>),
                                   DQ, <<BS, DQ>>),
                        NL, <<BS, "n">>)
       IN  <<DQ>> \o escaped \o <<DQ>>
  ELSE value

(***************************************************************************)
(* The line grammar shared by the writer and the parser.                   *)
(***************************************************************************)
\* The line is not skipped: not blank, not a comment, and it holds an "=".
lineIsEntry(rawLine) ==
  LET line == trim(rawLine)
  IN  line # <<>> /\ ~startsWith(line, HASH) /\ indexOf(line, EQ) # -1

\* The key of a line that is not skipped.
lineKey(rawLine) ==
  LET line == trim(rawLine)
  IN  trim(substring(line, 0, indexOf(line, EQ)))

\* The value of a line that is not skipped, one layer of quotes removed.
lineValue(rawLine) ==
  LET trimmed == trim(rawLine)
      value == trim(substringFrom(trimmed, indexOf(trimmed, EQ) + 1))
  IN  IF (startsWith(value, DQ) /\ endsWith(value, DQ))
         \/ (startsWith(value, SQ) /\ endsWith(value, SQ))
      THEN SubSeq(value, 2, Len(value) - 1)
      ELSE value

(***************************************************************************)
(* parseExistingEnv (scanner.js): the Map of key to value of an env file.  *)
(***************************************************************************)
RECURSIVE parseLines(_, _)
parseLines(lines, existing) ==
  IF lines = <<>> THEN existing
  ELSE parseLines(Tail(lines),
                  IF lineIsEntry(lines[1])
                  THEN mapSet(existing, lineKey(lines[1]), lineValue(lines[1]))
                  ELSE existing)

parseExistingEnv(exists, content) ==
  IF ~exists THEN <<>> ELSE parseLines(split(content), <<>>)

(***************************************************************************)
(* writeEnvFile (writer.js): the content written and the number returned.  *)
(***************************************************************************)
\* The line written for one entry.
entryLine(key, value) == key \o <<EQ>> \o formatValue(value)

\* The lines read from the file.
readLines(exists, content) == IF exists THEN split(content) ELSE <<>>

\* updateLines that writes back the trimmed text of the lines it keeps.
updateLinesTrimmed(lines, newVars) ==
  [i \in 1..Len(lines) |->
     IF lineIsEntry(lines[i]) /\ mapHas(newVars, lineKey(lines[i]))
     THEN entryLine(lineKey(lines[i]), mapGet(newVars, lineKey(lines[i])))
     ELSE trim(lines[i])]

\* updateLines that writes the value without formatting it.
updateLinesRaw(lines, newVars) ==
  [i \in 1..Len(lines) |->
     IF lineIsEntry(lines[i]) /\ mapHas(newVars, lineKey(lines[i]))
     THEN lineKey(lines[i]) \o <<EQ>> \o mapGet(newVars, lineKey(lines[i]))
     ELSE lines[i]]

\* The first loop: lines whose key is in newVars are replaced in place.
updateLines(lines, newVars) ==
  [i \in 1..Len(lines) |->
     IF lineIsEntry(lines[i]) /\ mapHas(newVars, lineKey(lines[i]))
     THEN entryLine(lineKey(lines[i]), mapGet(newVars, lineKey(lines[i])))
     ELSE lines[i]]

updatedKeys(lines, newVars) ==
  {lineKey(lines[i]) : i \in {j \in 1..Len(lines) :
       lineIsEntry(lines[j]) /\ mapHas(newVars, lineKey(lines[j]))}}

\* appendKeys without the test of updatedKeys: every entry is appended.
appendKeysAll(lines, newVars) == newVars

\* The second loop: the entries of newVars that were not updated, in order.
appendKeys(lines, newVars) ==
  LET updated == updatedKeys(lines, newVars)
  IN  SelectSeq(newVars, LAMBDA e : e.key \notin updated)

\* The separator pushed before the appended lines.
separatorLines(lines) ==
  IF Len(lines) > 0 /\ lines[Len(lines)] # <<>> THEN << <<>> >> ELSE <<>>

\* appendLines that puts the new lines in front (unshift instead of push).
appendLinesFirst(lines, toAppend) ==
  IF Len(toAppend) > 0
  THEN [i \in 1..Len(toAppend) |-> entryLine(toAppend[i].key, toAppend[i].value)]
         \o separatorLines(lines) \o lines
  ELSE lines

\* The appended block.
appendLines(lines, toAppend) ==
  IF Len(toAppend) > 0
  THEN lines \o separatorLines(lines)
             \o [i \in 1..Len(toAppend) |-> entryLine(toAppend[i].key, toAppend[i].value)]
  ELSE lines

\* finalContent without the removal of the trailing newlines.
finalContentNoStrip(lines) == join(lines) \o <<NL>>

\* The final content.
finalContent(lines) == stripTrailingNewlines(join(lines)) \o <<NL>>

\* writtenCount that counts the updated lines instead of the updated keys.
writtenCountLines(lines, newVars) ==
  Cardinality({j \in 1..Len(lines) :
                 lineIsEntry(lines[j]) /\ mapHas(newVars, lineKey(lines[j]))})
    + Len(appendKeys(lines, newVars))

\* The number returned.
writtenCount(lines, newVars) ==
  Cardinality(updatedKeys(lines, newVars)) + Len(appendKeys(lines, newVars))

writeEnvFile(exists, content, newVars) ==
  LET lines == readLines(exists, content)
  IN  [content |-> finalContent(appendLines(updateLines(lines, newVars),
                                            appendKeys(lines, newVars))),
       count |-> writtenCount(lines, newVars)]

(***************************************************************************)
(* Inputs of the model.                                                    *)
(***************************************************************************)
KA == <<"K", "A">>
KB == <<"K", "B">>
Keys == {KA, KB}

\* Values of the entries written by the writer specification: one written
\* as it is, one written in quotes.
Values == {<<"2">>, <<"a", SP, "b">>}

\* Lines of the file the first call finds: blank, entries (one with white
\* space around the key, which is the key of another line), and a comment
\* that holds an "=".
InitLines ==
  { <<>>,
    <<"K", "A", EQ, "1">>,
    <<SP, "K", "A", SP, EQ, "1">>,
    <<"K", "B", EQ, "1">>,
    <<HASH, "K", "A", EQ, "1">> }

SeqsUpTo(S, n) == UNION {[1..k -> S] : k \in 0..n}

\* Contents of the file the first call finds, with and without a final newline.
InitContents ==
  {join(ls) \o t : ls \in SeqsUpTo(InitLines, MaxLines), t \in {<<>>, <<NL>>}}

\* The newVars maps: up to MaxVars entries, no key twice.
NewVarsSet ==
  {m \in UNION {[1..k -> [key : Keys, value : Values]] : k \in 1..MaxVars} :
     \A i, j \in 1..Len(m) : i # j => m[i].key # m[j].key}

\* The values of the format specification.
FmtValues == SeqsUpTo(FmtChars, MaxValLen)

\* The files of the format specification.
FmtContents == {<<"K", "A", EQ, "1", NL>>, <<HASH, "c", NL, "K", "B", EQ, "1">>}

(***************************************************************************)
(* The session variables before processFolder has done anything.           *)
(***************************************************************************)
NoCounts == [total |-> -1, alreadySet |-> -1, missing |-> -1]
NoInput == <<"<none>">>

\* The scan variables once the scan is over, or when it is left out.
ScanIdle ==
  /\ rootReadable = TRUE
  /\ isDeepScan = FALSE
  /\ scanFiles = <<>>

\* The example files when syncToEnvExample is left out.
SyncIdle ==
  /\ exampleFiles = [d \in {"cwd", "sub"} |-> [exists |-> FALSE, content |-> <<>>]]
  /\ folder = "cwd"
  /\ syncLog = <<>>

\* The walk variables when discoverEnvFolders is left out.
WalkIdle ==
  /\ tree = <<>>
  /\ walkStack = <<>>
  /\ walkLog = <<>>
  /\ folders = <<>>

\* The variables of main when the loop over the folders is left out.
MainIdle ==
  /\ phases = <<>>
  /\ mainIdx = 0
  /\ awaiting = FALSE
  /\ totalSaved = 0

\* The bulk paste variables when the bulk mode is left out.
PasteIdle ==
  /\ pasted = <<>>
  /\ bulkVars = <<>>

\* No summary was shown.
SummaryIdle ==
  /\ reported = -1

SessIdle ==
  /\ pc = "idle"
  /\ foundVars = <<>>
  /\ existingEnv = <<>>
  /\ counts = NoCounts
  /\ varList = <<>>
  /\ idx = 0
  /\ results = <<>>
  /\ savedCount = 0
  /\ lastInput = NoInput
  /\ lastIdx = 0

(***************************************************************************)
(* The writer specification: any file, any sequence of writeEnvFile calls. *)
(***************************************************************************)
Init ==
  /\ fileExists \in BOOLEAN
  /\ fileContent \in InitContents
  /\ ~fileExists => fileContent = <<>>
  /\ prevExists = FALSE
  /\ prevContent = <<>>
  /\ lastVars = <<>>
  /\ ret = -1
  /\ calls = 0
  /\ arg = <<>>
  /\ SessIdle
  /\ ScanIdle
  /\ SyncIdle
  /\ WalkIdle
  /\ MainIdle
  /\ PasteIdle
  /\ SummaryIdle

\* One call writeEnvFile(fullEnvPath, newVars, existingEnv).
WriteCall(newVars) ==
  LET out == writeEnvFile(fileExists, fileContent, newVars)
  IN  /\ prevExists' = fileExists
      /\ prevContent' = fileContent
      /\ lastVars' = newVars
      /\ fileExists' = TRUE
      /\ fileContent' = out.content
      /\ ret' = out.count

Write ==
  /\ calls < MaxCalls
  /\ calls' = calls + 1
  /\ \E newVars \in NewVarsSet : WriteCall(newVars)
  /\ UNCHANGED <<arg, sessVars>>
  /\ UNCHANGED scanVars
  /\ UNCHANGED syncVars
  /\ UNCHANGED walkVars
  /\ UNCHANGED mainVars
  /\ UNCHANGED pasteVars
  /\ UNCHANGED summaryVars

Next == Write

Spec == Init /\ [][Next]_vars

(***************************************************************************)
(* The format specification: one value, drawn from every string over       *)
(* FmtChars, is saved for the key KA and the file is parsed again.         *)
(***************************************************************************)
InitFmt ==
  /\ fileExists \in BOOLEAN
  /\ fileContent \in FmtContents \cup {<<>>}
  /\ ~fileExists => fileContent = <<>>
  /\ prevExists = FALSE
  /\ prevContent = <<>>
  /\ lastVars = <<>>
  /\ ret = -1
  /\ calls = 0
  /\ arg \in FmtValues
  /\ pc = "idle"
  /\ foundVars = <<>>
  /\ existingEnv = parseExistingEnv(fileExists, fileContent)
  /\ counts = NoCounts
  /\ varList = <<>>
  /\ idx = 0
  /\ results = <<>>
  /\ savedCount = 0
  /\ lastInput = NoInput
  /\ lastIdx = 0
  /\ ScanIdle
  /\ SyncIdle
  /\ WalkIdle
  /\ MainIdle
  /\ PasteIdle
  /\ SummaryIdle

\* onSetValue that sets the Map in memory and leaves the file for later.
onSetValueNoWrite(key, value) ==
  /\ UNCHANGED fileVars
  /\ savedCount' = savedCount + 1
  /\ existingEnv' = mapSet(existingEnv, key, value)

\* The onSetValue callback of processFolder: the file is written, the
\* number written is added to savedCount and the Map in memory is set.
onSetValue(key, value) ==
  /\ WriteCall(<<[key |-> key, value |-> value]>>)
  /\ savedCount' = savedCount + ret'
  /\ existingEnv' = mapSet(existingEnv, key, value)

SetValue ==
  /\ savedCount < MaxSaves
  /\ onSetValue(KA, arg)
  /\ UNCHANGED <<calls, arg, pc, foundVars, counts, varList, idx, results,
                 lastInput, lastIdx>>
  /\ UNCHANGED scanVars
  /\ UNCHANGED syncVars
  /\ UNCHANGED walkVars
  /\ UNCHANGED mainVars
  /\ UNCHANGED pasteVars
  /\ UNCHANGED summaryVars

NextFmt == SetValue

SpecFmt == InitFmt /\ [][NextFmt]_vars

(***************************************************************************)
(* Vocabulary of the properties.                                           *)
(***************************************************************************)
\* A writeEnvFile call has been made.
HasWritten == ret # -1

\* The lines the last call found, and the lines it left, without the empty
\* piece that follows the final newline.
OldLines == readLines(prevExists, prevContent)
NewLines ==
  LET ls == split(fileContent)
  IN  IF ls[Len(ls)] = <<>> THEN SubSeq(ls, 1, Len(ls) - 1) ELSE ls

\* The indices of the KEY=VALUE lines of key k.
LinesOfKey(lines, k) ==
  {i \in 1..Len(lines) : lineIsEntry(lines[i]) /\ lineKey(lines[i]) = k}

KeysInLines(lines) ==
  {lineKey(lines[i]) : i \in {j \in 1..Len(lines) : lineIsEntry(lines[j])}}

\* No key occurs on more than one KEY=VALUE line.
NoDuplicateKey(lines) ==
  \A i, j \in 1..Len(lines) :
    (i # j /\ lineIsEntry(lines[i]) /\ lineIsEntry(lines[j]))
      => lineKey(lines[i]) # lineKey(lines[j])

\* The comment lines.
IsComment(rawLine) == startsWith(trim(rawLine), HASH)
CommentCount(lines) == Cardinality({i \in 1..Len(lines) : IsComment(lines[i])})

\* The entries of the last call whose key was on no line of the file.
AbsentEntries ==
  SelectSeq(lastVars, LAMBDA e : e.key \notin KeysInLines(OldLines))

\* C1: starting from a file in which no key occurs on more than one
\* KEY=VALUE line, a writeEnvFile call leaves a file in which no key occurs
\* on more than one KEY=VALUE line; a key that was on a line stays on that
\* one line and is not appended.
C1_NeverDuplicatesKey ==
  (HasWritten /\ NoDuplicateKey(OldLines)) =>
     /\ NoDuplicateKey(NewLines)
     /\ \A k \in mapKeys(lastVars) :
          LinesOfKey(OldLines, k) # {} =>
            LinesOfKey(NewLines, k) = LinesOfKey(OldLines, k)

\* C1 witness: the second call of a behaviour found a file without a
\* duplicate key and updated a key in place.
C1_Witness ==
  /\ calls = 2
  /\ NoDuplicateKey(OldLines)
  /\ \E k \in mapKeys(lastVars) : LinesOfKey(OldLines, k) # {}
  /\ AbsentEntries # <<>>

\* C2: writeEnvFile leaves every comment line and every KEY=VALUE line
\* whose key is not in newEntries unchanged at its index (so in its order);
\* the lines it replaces are those whose key is in newEntries; the only
\* lines that may go are empty lines at the end of the file.
C2_UntouchedLinesKept ==
  HasWritten =>
    \A i \in 1..Len(OldLines) :
      IF lineIsEntry(OldLines[i]) /\ mapHas(lastVars, lineKey(OldLines[i]))
      THEN /\ i <= Len(NewLines)
           /\ NewLines[i] = entryLine(lineKey(OldLines[i]),
                                      mapGet(lastVars, lineKey(OldLines[i])))
      ELSE \/ (i <= Len(NewLines) /\ NewLines[i] = OldLines[i])
           \/ (i > Len(NewLines) /\ OldLines[i] = <<>>)

\* C2 witness: a call updated one key of a file that holds a comment and a
\* line of another key written with white space.
C2_Witness ==
  /\ HasWritten
  /\ mapKeys(lastVars) = {KB}
  /\ LinesOfKey(OldLines, KB) # {}
  /\ \E i \in 1..Len(OldLines) : IsComment(OldLines[i])
  /\ \E i \in 1..Len(OldLines) :
       lineIsEntry(OldLines[i]) /\ OldLines[i][1] = SP

\* C3: the keys of newEntries that are on no line of the file are the last
\* lines of the file after the call, after every line the file had, in the
\* iteration order of newEntries.
C3_AbsentKeysAppendedInOrder ==
  HasWritten =>
    LET m == Len(AbsentEntries)
        n == Len(NewLines)
    IN  /\ n - m >= Len(OldLines) \/ m = 0
        /\ n >= m
        /\ \A j \in 1..m :
             NewLines[n - m + j] =
               entryLine(AbsentEntries[j].key, AbsentEntries[j].value)

\* C3 witness: a call appended two keys to a file that had lines.
C3_Witness ==
  /\ HasWritten
  /\ Len(AbsentEntries) = 2
  /\ Len(OldLines) >= 2
  /\ OldLines[1] # <<>>

\* C4: a call that appends a key to a non-empty file inserts exactly one
\* separator comment line, right before the appended lines; a call that
\* appends nothing, or writes to an empty or missing file, inserts none.
C4_SeparatorComment ==
  HasWritten =>
    LET m == Len(AbsentEntries)
        n == Len(NewLines)
    IN  IF m > 0 /\ prevExists /\ prevContent # <<>>
        THEN /\ CommentCount(NewLines) = CommentCount(OldLines) + 1
             /\ n > m
             /\ IsComment(NewLines[n - m])
        ELSE CommentCount(NewLines) = CommentCount(OldLines)

\* C8: after every writeEnvFile call the file ends with exactly one newline.
C8_OneTrailingNewline ==
  HasWritten =>
    /\ Len(fileContent) >= 1
    /\ fileContent[Len(fileContent)] = NL
    /\ Len(fileContent) >= 2 => fileContent[Len(fileContent) - 1] # NL

\* C8 witness: a call found a file that ended with several newlines.
C8_Witness ==
  /\ HasWritten
  /\ Len(prevContent) >= 3
  /\ prevContent[Len(prevContent)] = NL
  /\ prevContent[Len(prevContent) - 1] = NL
  /\ AbsentEntries = <<>>

\* C9: a second writeEnvFile call with the same newEntries leaves the file
\* as the first call left it.
C9_Idempotent ==
  HasWritten => writeEnvFile(TRUE, fileContent, lastVars).content = fileContent

\* C9 witness: the call appended a key in quotes and updated another.
C9_Witness ==
  /\ HasWritten
  /\ Len(lastVars) = 2
  /\ Len(AbsentEntries) = 1
  /\ needsQuotes(AbsentEntries[1].value)
  /\ fileContent # prevContent

\* C10: the number returned is the number of distinct keys updated in place
\* plus the number of keys appended, and is the number of entries of
\* newEntries, also when an updated key was on several lines.
C10_ReturnsEntryCount ==
  HasWritten =>
    /\ ret = Cardinality(KeysInLines(OldLines) \cap mapKeys(lastVars))
               + Len(AbsentEntries)
    /\ ret = Len(lastVars)

\* C10 witness: a call updated a key that was on two lines and appended
\* another.
C10_Witness ==
  /\ HasWritten
  /\ \E k \in mapKeys(lastVars) : Cardinality(LinesOfKey(OldLines, k)) = 2
  /\ Len(AbsentEntries) = 1

(***************************************************************************)
(* Properties of the format specification.                                 *)
(***************************************************************************)
\* The text after "KA=" on the lines of key KA.
WrittenTexts ==
  {SubSeq(NewLines[i], 4, Len(NewLines[i])) : i \in LinesOfKey(NewLines, KA)}

\* The line of key KA is there once, and starts with "KA=".
WrittenOnce ==
  /\ Cardinality(LinesOfKey(NewLines, KA)) = 1
  /\ \A i \in LinesOfKey(NewLines, KA) : SubSeq(NewLines[i], 1, 3) = KA \o <<EQ>>

\* The escaping of the format rules, character by character.
RECURSIVE EscapeChars(_)
EscapeChars(v) ==
  IF v = <<>> THEN <<>>
  ELSE (CASE v[1] = BS -> <<BS, BS>>
          [] v[1] = DQ -> <<BS, DQ>>
          [] v[1] = NL -> <<BS, "n">>
          [] OTHER -> <<v[1]>>) \o EscapeChars(Tail(v))

\* The characters that call for quotes according to the format rules as
\* written, and with the dollar sign added.
StatedQuoteChars == {SP, TAB, CR, NL, HASH, EQ, BS, SQ, DQ, BT, BANG}
ActualQuoteChars == StatedQuoteChars \cup {DOLLAR}

HasCharIn(v, S) == \E i \in 1..Len(v) : v[i] \in S

\* C5: a value written with writeEnvFile and parsed again with
\* parseExistingEnv is the value that was written.
C5_RoundTrip ==
  HasWritten =>
    LET existing == parseExistingEnv(fileExists, fileContent)
    IN  mapHas(existing, KA) /\ mapGet(existing, KA) = arg

\* C6 as stated: the empty value is written as a pair of double quotes, the
\* line being KA="".
C6_EmptyWrittenAsQuotePair ==
  (HasWritten /\ arg = <<>>) => (WrittenOnce /\ WrittenTexts = {<<DQ, DQ>>})

\* C6: the empty value is written as the empty text, the line being KA=
\* with nothing after the "=".
C6_EmptyWrittenBare ==
  (HasWritten /\ arg = <<>>) => (WrittenOnce /\ WrittenTexts = {<<>>})

\* C6 witness: the empty value has been written to a file that was there.
C6_Witness == HasWritten /\ arg = <<>> /\ prevExists

\* C7 as stated: a non-empty value is written as it is exactly when it has
\* no white space, #, =, backslash, quote, backtick, ! or newline; any other
\* value is written in double quotes, escaped.
C7_QuotingRuleAsStated ==
  (HasWritten /\ arg # <<>>) =>
    /\ WrittenOnce
    /\ WrittenTexts =
         {IF HasCharIn(arg, StatedQuoteChars)
          THEN <<DQ>> \o EscapeChars(arg) \o <<DQ>>
          ELSE arg}

\* C7: a non-empty value is written as it is exactly when it has no white
\* space, #, =, backslash, $, quote, backtick, ! or newline; any other value
\* is written in double quotes with each backslash doubled, each double
\* quote preceded by a backslash and each newline written as backslash, n.
C7_QuotingRule ==
  (HasWritten /\ arg # <<>>) =>
    /\ WrittenOnce
    /\ WrittenTexts =
         {IF HasCharIn(arg, ActualQuoteChars)
          THEN <<DQ>> \o EscapeChars(arg) \o <<DQ>>
          ELSE arg}

\* C7 witness: a value made of a dollar sign and a double quote has been
\* written to a file that was there.
C7_Witness == HasWritten /\ arg = <<DOLLAR, DQ>> /\ prevExists

(***************************************************************************)
(* Reconciliation (index.js, ui.js): the file chosen is parsed and the     *)
(* scan result is counted against it.                                      *)
(***************************************************************************)
\* hasUsableValue whose test is value.length > 0, without the trim.
hasUsableValueNoTrim(envMap, key) ==
  IF ~mapHas(envMap, key) THEN FALSE
  ELSE Len(mapGet(envMap, key)) > 0

\* hasUsableValue of processFolder and of showScanResult.
hasUsableValue(envMap, key) ==
  IF ~mapHas(envMap, key) THEN FALSE
  ELSE Len(trim(mapGet(envMap, key))) > 0

\* [...foundVars.keys()], in the order of insertion.
foundKeys(found) == [i \in 1..Len(found) |-> found[i].key]

\* keys.filter(k => test(k)).length
RECURSIVE countUsable(_, _)
countUsable(keys, envMap) ==
  IF keys = <<>> THEN 0
  ELSE (IF hasUsableValue(envMap, keys[1]) THEN 1 ELSE 0)
       + countUsable(Tail(keys), envMap)

\* What showScanResult returns.
showScanResult(found, envMap) ==
  LET total == Len(found)
      alreadySet == countUsable(foundKeys(found), envMap)
  IN  [total |-> total, alreadySet |-> alreadySet, missing |-> total - alreadySet]

\* The file that names a variable in the scan results of the model.
EnvExample == ".env.example"

\* The scan results: every list of the keys without repetition, each key
\* named by one file.
FoundSet ==
  {[i \in 1..Len(ks) |-> [key |-> ks[i], value |-> <<EnvExample>>]] :
     ks \in {q \in SeqsUpTo(Keys, Cardinality(Keys)) :
               /\ q # <<>>
               /\ \A i, j \in 1..Len(q) : i # j => q[i] # q[j]}}

\* Lines of the file parsed: a set value, an empty value, a value of one
\* quoted space, a line whose key is empty, and a comment.
ReconLines ==
  { <<"K", "A", EQ, "1">>,
    <<"K", "A", EQ>>,
    <<"K", "B", EQ, DQ, SP, DQ>>,
    <<EQ, "v">>,
    <<HASH, "c">> }

ReconContents ==
  {join(ls) \o <<NL>> : ls \in SeqsUpTo(ReconLines, MaxLines) \ {<<>>}}

\* processFolder after scanning and askEnvFile: the file to fill may be
\* missing, nothing is parsed yet.
InitRecon ==
  /\ fileExists \in BOOLEAN
  /\ fileContent \in ReconContents \cup {<<>>}
  /\ ~fileExists => fileContent = <<>>
  /\ prevExists = FALSE
  /\ prevContent = <<>>
  /\ lastVars = <<>>
  /\ ret = -1
  /\ calls = 0
  /\ arg = <<>>
  /\ pc = "parse"
  /\ foundVars \in FoundSet
  /\ existingEnv = <<>>
  /\ counts = NoCounts
  /\ varList = <<>>
  /\ idx = 0
  /\ results = <<>>
  /\ savedCount = 0
  /\ lastInput = NoInput
  /\ lastIdx = 0
  /\ ScanIdle
  /\ SyncIdle
  /\ WalkIdle
  /\ MainIdle
  /\ PasteIdle
  /\ SummaryIdle

\* const existingEnv = parseExistingEnv(fullEnvPath)
ParseExisting ==
  /\ pc = "parse"
  /\ existingEnv' = parseExistingEnv(fileExists, fileContent)
  /\ pc' = "summary"
  /\ UNCHANGED <<fileVars, calls, arg, foundVars, counts, varList, idx, results,
                 savedCount, lastInput, lastIdx>>
  /\ UNCHANGED scanVars
  /\ UNCHANGED syncVars
  /\ UNCHANGED walkVars
  /\ UNCHANGED mainVars
  /\ UNCHANGED pasteVars
  /\ UNCHANGED summaryVars

\* const {missing, alreadySet} = showScanResult(foundVars, existingEnv)
ShowScanResult ==
  /\ pc = "summary"
  /\ counts' = showScanResult(foundVars, existingEnv)
  /\ pc' = "mode"
  /\ UNCHANGED <<fileVars, calls, arg, foundVars, existingEnv, varList, idx,
                 results, savedCount, lastInput, lastIdx>>
  /\ UNCHANGED scanVars
  /\ UNCHANGED syncVars
  /\ UNCHANGED walkVars
  /\ UNCHANGED mainVars
  /\ UNCHANGED pasteVars
  /\ UNCHANGED summaryVars

NextRecon == ParseExisting \/ ShowScanResult

SpecRecon == InitRecon /\ [][NextRecon]_vars

\* The keys found whose value in the existing configuration has a character
\* that is not white space.
UsableKeys ==
  {k \in mapKeys(foundVars) :
     \E i \in 1..Len(existingEnv) :
       /\ existingEnv[i].key = k
       /\ \E j \in 1..Len(existingEnv[i].value) :
            existingEnv[i].value[j] \notin WhiteSpace}

\* C11: the summary counts a key found as already set exactly when the
\* existing configuration holds it with a value that is not empty once
\* trimmed; a key that is absent and a key whose value is empty or white
\* space both count as missing; the total is the sum of the two.
C11_CountsUsableValues ==
  (counts # NoCounts) =>
    /\ counts.alreadySet = Cardinality(UsableKeys)
    /\ counts.missing = Cardinality(mapKeys(foundVars) \ UsableKeys)
    /\ counts.total = counts.alreadySet + counts.missing
    /\ counts.total = Cardinality(mapKeys(foundVars))

\* C11 witness: the summary has counted two keys, KA set and KB missing
\* because its value is one space.
C11_Witness ==
  /\ counts = [total |-> 2, alreadySet |-> 1, missing |-> 1]
  /\ mapHas(existingEnv, KB)
  /\ mapGet(existingEnv, KB) = <<SP>>
  /\ mapHas(existingEnv, KA)
  /\ mapGet(existingEnv, KA) = <<"1">>

\* C18: a line that has an "=" and an empty key adds no entry to the
\* existing configuration: once the file is parsed, no entry has the empty
\* key.
C18_EmptyKeyLineSkipped ==
  (pc # "parse") => (<<>> \notin mapKeys(existingEnv))

(***************************************************************************)
(* The interactive session (ui.js promptForValues, index.js processFolder) *)
(***************************************************************************)
Digits == <<"0", "1", "2", "3", "4", "5", "6", "7", "8", "9">>
Upper ==
  <<"A", "B", "C", "D", "E", "F", "G", "H", "I", "J", "K", "L", "M", "N", "O", "P", "Q", "R", "S", "T", "U", "V", "W", "X", "Y", "Z">>
Lower ==
  <<"a", "b", "c", "d", "e", "f", "g", "h", "i", "j", "k", "l", "m", "n", "o", "p", "q", "r", "s", "t", "u", "v", "w", "x", "y", "z">>

\* The characters of names and commands in the order of their code units.
CodeOrder == Digits \o Upper \o <<"_">> \o Lower

charCode(c) == CHOOSE i \in 1..Len(CodeOrder) : CodeOrder[i] = c

\* a < b for two strings, as the default comparison of Array.prototype.sort
RECURSIVE strLess(_, _)
strLess(a, b) ==
  IF b = <<>> THEN FALSE
  ELSE IF a = <<>> THEN TRUE
  ELSE IF a[1] = b[1] THEN strLess(Tail(a), Tail(b))
  ELSE charCode(a[1]) < charCode(b[1])

\* x put into the sorted list s
RECURSIVE insertSorted(_, _)
insertSorted(x, s) ==
  IF s = <<>> THEN <<x>>
  ELSE IF strLess(x, s[1]) THEN <<x>> \o s
  ELSE <<s[1]>> \o insertSorted(x, Tail(s))

\* [...varsToFill].sort()
RECURSIVE sort(_)
sort(s) == IF s = <<>> THEN <<>> ELSE insertSorted(s[1], sort(Tail(s)))

\* s.toLowerCase()
toLowerCase(s) ==
  [i \in 1..Len(s) |->
     IF \E j \in 1..Len(Upper) : Upper[j] = s[i]
     THEN Lower[CHOOSE j \in 1..Len(Upper) : Upper[j] = s[i]]
     ELSE s[i]]

\* The command words of the value prompt.
CmdQuit == <<"q", "u", "i", "t">>
CmdExit == <<"e", "x", "i", "t">>
CmdHelp == <<"h", "e", "l", "p">>
CmdQuestion == <<"?">>
CmdList == <<"l", "i", "s", "t">>
CmdBack == <<"b", "a", "c", "k">>
CmdSkip == <<"s", "k", "i", "p">>
CmdSkipAll == <<"s", "k", "i", "p", "a", "l", "l">>
CmdClear == <<"c", "l", "e", "a", "r">>

\* keys.filter(k => !hasUsableValue(existingEnv, k))
RECURSIVE filterMissing(_, _)
filterMissing(keys, envMap) ==
  IF keys = <<>> THEN <<>>
  ELSE (IF hasUsableValue(envMap, keys[1]) THEN <<>> ELSE <<keys[1]>>)
       \o filterMissing(Tail(keys), envMap)

\* The list of the variables to fill in a mode.
varsToFill(mode, found, envMap) ==
  IF mode = "missing" THEN filterMissing(foundKeys(found), envMap)
  ELSE foundKeys(found)

\* The choices askMode offers; the bulk paste choice is not followed here.
modeChoices(missingCount, alreadySetCount) ==
  (IF missingCount > 0 THEN {"missing"} ELSE {})
  \cup (IF alreadySetCount > 0 THEN {"all"} ELSE {})
  \cup {"exit"}

\* existingEnv.get(varName) || ""
currentValue(envMap, varName) ==
  IF mapHas(envMap, varName) THEN mapGet(envMap, varName) ELSE <<>>

\* What the input prompt returns for the text typed: the default, which is
\* currentValue || undefined, stands in for an empty answer.
promptValue(typed, current) == IF typed = <<>> THEN current ELSE typed

\* const cmd = value.trim().toLowerCase()
cmdOf(value) == toLowerCase(trim(value))

\* finalValue that keeps the text typed for the clear command.
finalValueAsTyped(cmd, value) == value

\* const finalValue = cmd === "clear" ? "" : value
finalValue(cmd, value) == IF cmd = CmdClear THEN <<>> ELSE value

\* The index after the back command without the test for the first variable.
indexAfterBackNoTest(i) == (i - 2) + 1

\* The index after the back command: "continue" at the first variable,
\* otherwise i -= 2 and the i++ of the loop.
indexAfterBack(i) == IF i = 0 THEN i ELSE (i - 2) + 1

\* The texts typed at the value prompt: two values, the empty answer, the
\* commands, and two commands in other case and with white space around.
SessInputs ==
  { <<"2">>, <<SP, "x">>, <<>>,
    CmdQuit, CmdExit, CmdHelp, CmdQuestion, CmdList, CmdBack, CmdSkip,
    CmdSkipAll, CmdClear,
    <<SP, "B", "A", "C", "K">>,
    <<"C", "l", "e", "a", "r", SP>> }

\* Contents of the file to fill when the session starts.
SessContents ==
  { <<"K", "A", EQ, "1", NL>>,
    <<HASH, "c", NL, "K", "A", EQ, "1", NL, "K", "B", EQ, NL>> }

\* processFolder after scanning and askEnvFile.
InitSession ==
  /\ fileExists \in BOOLEAN
  /\ fileContent \in SessContents \cup {<<>>}
  /\ ~fileExists => fileContent = <<>>
  /\ fileExists => fileContent # <<>>
  /\ prevExists = FALSE
  /\ prevContent = <<>>
  /\ lastVars = <<>>
  /\ ret = -1
  /\ calls = 0
  /\ arg = <<>>
  /\ pc = "parse"
  /\ foundVars \in FoundSet
  /\ existingEnv = <<>>
  /\ counts = NoCounts
  /\ varList = <<>>
  /\ idx = 0
  /\ results = <<>>
  /\ savedCount = 0
  /\ lastInput = NoInput
  /\ lastIdx = 0
  /\ ScanIdle
  /\ SyncIdle
  /\ WalkIdle
  /\ MainIdle
  /\ PasteIdle
  /\ SummaryIdle

\* const mode = await askMode(missing, alreadySet), and what processFolder
\* does with the mode up to the first prompt of promptForValues.
AskMode ==
  /\ pc = "mode"
  /\ \E mode \in modeChoices(counts.missing, counts.alreadySet) :
       IF mode = "exit"
       THEN /\ pc' = "skipped"
            /\ UNCHANGED <<varList, idx>>
       ELSE LET toFill == varsToFill(mode, foundVars, existingEnv)
            IN  IF Len(toFill) = 0
                THEN /\ pc' = "allset"
                     /\ UNCHANGED <<varList, idx>>
                ELSE /\ varList' = sort(toFill)
                     /\ idx' = 0
                     /\ pc' = "prompt"
  /\ UNCHANGED <<fileVars, calls, arg, foundVars, existingEnv, counts, results,
                 savedCount, lastInput, lastIdx>>
  /\ UNCHANGED scanVars
  /\ UNCHANGED syncVars
  /\ UNCHANGED walkVars
  /\ UNCHANGED mainVars
  /\ UNCHANGED pasteVars
  /\ UNCHANGED summaryVars

\* The variable prompted for.
varName == varList[idx + 1]

\* The value prompt is answered with the text typed.
Answered(typed) ==
  /\ pc = "prompt"
  /\ lastInput' = typed
  /\ lastIdx' = idx

\* The command of the answer typed.
answerCmd(typed) == cmdOf(promptValue(typed, currentValue(existingEnv, varName)))

\* "break" without exitRequested: the i++ and the test of the for loop.
Advance ==
  /\ idx' = idx + 1
  /\ pc' = IF idx + 1 < Len(varList) THEN "prompt" ELSE "done"

\* quit, exit: the session ends when confirmed, else the prompt is repeated.
AnswerExit ==
  \E typed \in SessInputs, confirmExit \in BOOLEAN :
    /\ Answered(typed)
    /\ answerCmd(typed) \in {CmdQuit, CmdExit}
    /\ pc' = IF confirmExit THEN "done" ELSE "prompt"
    /\ UNCHANGED <<fileVars, calls, arg, foundVars, existingEnv, counts, varList,
                   idx, results, savedCount>>
    /\ UNCHANGED scanVars
    /\ UNCHANGED syncVars
    /\ UNCHANGED walkVars
    /\ UNCHANGED mainVars
    /\ UNCHANGED pasteVars
    /\ UNCHANGED summaryVars

\* help, ?, list: the prompt is repeated.
AnswerHelp ==
  \E typed \in SessInputs :
    /\ Answered(typed)
    /\ answerCmd(typed) \in {CmdHelp, CmdQuestion, CmdList}
    /\ UNCHANGED <<fileVars, calls, arg, pc, foundVars, existingEnv, counts,
                   varList, idx, results, savedCount>>
    /\ UNCHANGED scanVars
    /\ UNCHANGED syncVars
    /\ UNCHANGED walkVars
    /\ UNCHANGED mainVars
    /\ UNCHANGED pasteVars
    /\ UNCHANGED summaryVars

\* back that saves the text typed before it moves.
AnswerBackSaves ==
  \E typed \in SessInputs :
    /\ Answered(typed)
    /\ answerCmd(typed) = CmdBack
    /\ savedCount < MaxSaves
    /\ idx' = indexAfterBack(idx)
    /\ onSetValue(varName, typed)
    /\ results' = mapSet(results, varName, typed)
    /\ UNCHANGED <<calls, arg, pc, foundVars, counts, varList>>
    /\ UNCHANGED scanVars
    /\ UNCHANGED syncVars
    /\ UNCHANGED walkVars
    /\ UNCHANGED mainVars
    /\ UNCHANGED pasteVars
    /\ UNCHANGED summaryVars

\* back: the previous variable is prompted for, or the first one again.
AnswerBack ==
  \E typed \in SessInputs :
    /\ Answered(typed)
    /\ answerCmd(typed) = CmdBack
    /\ idx' = indexAfterBack(idx)
    /\ UNCHANGED <<fileVars, calls, arg, pc, foundVars, existingEnv, counts,
                   varList, results, savedCount>>
    /\ UNCHANGED scanVars
    /\ UNCHANGED syncVars
    /\ UNCHANGED walkVars
    /\ UNCHANGED mainVars
    /\ UNCHANGED pasteVars
    /\ UNCHANGED summaryVars

\* skip: the next variable is prompted for.
AnswerSkip ==
  \E typed \in SessInputs :
    /\ Answered(typed)
    /\ answerCmd(typed) = CmdSkip
    /\ Advance
    /\ UNCHANGED <<fileVars, calls, arg, foundVars, existingEnv, counts, varList,
                   results, savedCount>>
    /\ UNCHANGED scanVars
    /\ UNCHANGED syncVars
    /\ UNCHANGED walkVars
    /\ UNCHANGED mainVars
    /\ UNCHANGED pasteVars
    /\ UNCHANGED summaryVars

\* skipall: the session ends when confirmed, else the prompt is repeated.
AnswerSkipAll ==
  \E typed \in SessInputs, confirmSkip \in BOOLEAN :
    /\ Answered(typed)
    /\ answerCmd(typed) = CmdSkipAll
    /\ pc' = IF confirmSkip THEN "done" ELSE "prompt"
    /\ UNCHANGED <<fileVars, calls, arg, foundVars, existingEnv, counts, varList,
                   idx, results, savedCount>>
    /\ UNCHANGED scanVars
    /\ UNCHANGED syncVars
    /\ UNCHANGED walkVars
    /\ UNCHANGED mainVars
    /\ UNCHANGED pasteVars
    /\ UNCHANGED summaryVars

\* isSave without the test for the skip command.
isSaveOrSkip(cmd) ==
  cmd \notin {CmdQuit, CmdExit, CmdHelp, CmdQuestion, CmdList, CmdBack,
              CmdSkipAll}

\* The answers that are not one of the commands above.
isSave(cmd) ==
  cmd \notin {CmdQuit, CmdExit, CmdHelp, CmdQuestion, CmdList, CmdBack, CmdSkip,
              CmdSkipAll}

\* Any other answer is saved: onSetValue, then results.set, then the next
\* variable.
AnswerSave ==
  \E typed \in SessInputs :
    LET value == promptValue(typed, currentValue(existingEnv, varName))
        final == finalValue(cmdOf(value), value)
    IN  /\ Answered(typed)
        /\ isSave(cmdOf(value))
        /\ savedCount < MaxSaves
        /\ onSetValue(varName, final)
        /\ results' = mapSet(results, varName, final)
        /\ Advance
        /\ UNCHANGED <<calls, arg, foundVars, counts, varList>>
        /\ UNCHANGED scanVars
        /\ UNCHANGED syncVars
        /\ UNCHANGED walkVars
        /\ UNCHANGED mainVars
        /\ UNCHANGED pasteVars
        /\ UNCHANGED summaryVars

\* The same answer when fs.writeFileSync throws inside writeEnvFile: the
\* file could not be opened and is as it was, or it was opened, which
\* truncates it, and the error came after n characters were written.  The
\* exception leaves onSetValue, promptForValues and processFolder and is
\* caught by main().catch in bin/envsetter.js.
AnswerSaveFails ==
  \E typed \in SessInputs :
    LET value == promptValue(typed, currentValue(existingEnv, varName))
        final == finalValue(cmdOf(value), value)
        out == writeEnvFile(fileExists, fileContent,
                            <<[key |-> varName, value |-> final]>>)
    IN  /\ Answered(typed)
        /\ isSave(cmdOf(value))
        /\ savedCount < MaxSaves
        /\ \/ UNCHANGED <<fileExists, fileContent>>
           \/ \E n \in 0..(Len(out.content) - 1) :
                /\ fileExists' = TRUE
                /\ fileContent' = SubSeq(out.content, 1, n)
        /\ pc' = "failed"
        /\ UNCHANGED <<prevExists, prevContent, lastVars, ret, calls, arg,
                       foundVars, existingEnv, counts, varList, idx, results,
                       savedCount>>
        /\ UNCHANGED scanVars
        /\ UNCHANGED syncVars
        /\ UNCHANGED walkVars
        /\ UNCHANGED mainVars
        /\ UNCHANGED pasteVars
        /\ UNCHANGED summaryVars

(***************************************************************************)
(* Properties of the interactive session.                                  *)
(***************************************************************************)
\* The lines of the file to fill, none when it is missing.
FileLines == IF fileExists THEN split(fileContent) ELSE <<>>

\* The file has a KEY=VALUE line for key k, and every such line holds v.
FileHolds(k, v) ==
  /\ LinesOfKey(FileLines, k) # {}
  /\ \A j \in LinesOfKey(FileLines, k) : lineValue(FileLines[j]) = v

\* The answers typed that are the back, the skip and the clear command.
BackTyped == {<<"b", "a", "c", "k">>, <<SP, "B", "A", "C", "K">>}
SkipTyped == {<<"s", "k", "i", "p">>}
ClearTyped == {<<"c", "l", "e", "a", "r">>, <<"C", "l", "e", "a", "r", SP>>}

\* C12: whenever a variable is prompted for and when the session has ended,
\* every value accepted so far is written: for each key of the results the
\* file has a line of the key that holds the value accepted last, and the
\* existing configuration in memory maps the key to that value.
C12_AcceptedValuesWritten ==
  (pc \in {"prompt", "done"}) =>
    \A i \in 1..Len(results) :
      /\ FileHolds(results[i].key, results[i].value)
      /\ mapHas(existingEnv, results[i].key)
      /\ mapGet(existingEnv, results[i].key) = results[i].value

\* C12 witness: a prompt is open after two values were accepted for the
\* same key, the second after going back.
C12_Witness ==
  /\ pc = "prompt"
  /\ savedCount = 2
  /\ Len(results) = 1
  /\ idx = 1

\* C13: an answer of skip or back writes nothing: the file, the existing
\* configuration in memory, the results and the saved count are unchanged.
C13_SkipBackNeverWrite ==
  [][(pc = "prompt" /\ lastInput' \in (SkipTyped \cup BackTyped)) =>
       UNCHANGED <<fileExists, fileContent, existingEnv, results, savedCount>>]_vars

\* C13 witness: back was answered at the second variable after a value had
\* been accepted for the first.
C13_Witness ==
  /\ pc = "prompt"
  /\ lastInput \in BackTyped
  /\ lastIdx = 1
  /\ idx = 0
  /\ Len(results) = 1
  /\ savedCount = 1

\* C14: the index of the variable prompted for is within 0..n-1; back at
\* i > 0 prompts for i-1 and back at 0 prompts for 0 again; skip or an
\* accepted value at i prompts for i+1, or ends the session when i = n-1.
C14_PromptIndex ==
  /\ [](pc = "prompt" => idx \in 0..(Len(varList) - 1))
  /\ [][(pc = "prompt" /\ pc' # "failed") =>
          /\ (lastInput' \in BackTyped) =>
               /\ pc' = "prompt"
               /\ idx' = IF idx > 0 THEN idx - 1 ELSE 0
          /\ (lastInput' \in SkipTyped \/ savedCount' # savedCount) =>
               IF idx = Len(varList) - 1
               THEN pc' = "done"
               ELSE pc' = "prompt" /\ idx' = idx + 1]_vars

\* C14 witness: back was answered at the second variable and the first is
\* prompted for, nothing having been accepted.
C14_Witness ==
  /\ pc = "prompt"
  /\ lastInput \in BackTyped
  /\ lastIdx = 1
  /\ idx = 0
  /\ results = <<>>
  /\ Len(varList) = 2

\* C15: after an answer of clear for a key, the key is present with the
\* empty value in the file and in the existing configuration in memory,
\* and the summary would count it as missing.
C15_ClearStoresEmpty ==
  (lastInput \in ClearTyped /\ pc \in {"prompt", "done"}) =>
    LET k == varList[lastIdx + 1]
    IN  /\ FileHolds(k, <<>>)
        /\ mapHas(existingEnv, k)
        /\ mapGet(existingEnv, k) = <<>>
        /\ k \notin UsableKeys
        /\ showScanResult(<<[key |-> k, value |-> <<EnvExample>>]>>,
                          existingEnv).missing = 1

\* C15 witness: clear was answered for KA, which the file held with the
\* value 1.
C15_Witness ==
  /\ lastInput \in ClearTyped
  /\ pc \in {"prompt", "done"}
  /\ varList[lastIdx + 1] = KA
  /\ prevExists
  /\ \E j \in LinesOfKey(OldLines, KA) : lineValue(OldLines[j]) = <<"1">>

\* C16: an empty answer keeps the current value of the key: a key that is
\* absent from the existing configuration and from the file stays absent,
\* a key that is present keeps its value.
C16_EnterKeepsCurrent ==
  [][(pc = "prompt" /\ lastInput' = <<>> /\ pc' # "failed") =>
       LET k == varList[idx + 1]
       IN  /\ mapHas(existingEnv', k) = mapHas(existingEnv, k)
           /\ mapHas(existingEnv, k) => mapGet(existingEnv', k) = mapGet(existingEnv, k)
           /\ (LinesOfKey(FileLines', k) = {}) = (LinesOfKey(FileLines, k) = {})]_vars

\* C17: when the write of an accepted value fails, the file content is what
\* it was before the attempt and the value is recorded nowhere: the
\* existing configuration in memory, the results and the saved count are
\* unchanged.
C17_FailedWriteChangesNothing ==
  [][(pc = "prompt" /\ pc' = "failed") =>
       UNCHANGED <<fileExists, fileContent, existingEnv, results, savedCount>>]_vars

(***************************************************************************)
(* The scanner (scanner.js): scanCodebase and scanEnvFilesOnly.            *)
(***************************************************************************)
\* The elements of a sequence.
Range(s) == {s[i] : i \in 1..Len(s)}

\* [A-Z0-9_] and \w
NameChars == Range(Upper) \cup Range(Digits) \cup {"_"}
WordChars == NameChars \cup Range(Lower)
Quotes == {SQ, DQ}

\* BLACKLIST
BLACKLIST ==
  {<<"N", "O", "D", "E", "_", "E", "N", "V">>, <<"H", "O", "M", "E">>,
   <<"P", "A", "T", "H">>, <<"U", "S", "E", "R">>,
   <<"S", "H", "E", "L", "L">>, <<"P", "W", "D">>, <<"L", "A", "N", "G">>,
   <<"T", "E", "R", "M">>, <<"H", "O", "S", "T", "N", "A", "M", "E">>,
   <<"O", "L", "D", "P", "W", "D">>, <<"E", "D", "I", "T", "O", "R">>,
   <<"T", "M", "P", "D", "I", "R">>, <<"T", "M", "P">>,
   <<"T", "E", "M", "P">>, <<"C", "I">>, <<"N", "O", "D", "E">>,
   <<"N", "P", "M">>, <<"N", "V", "M">>, <<"S", "H", "L", "V", "L">>,
   <<"L", "O", "G", "N", "A", "M", "E">>, <<"L", "C", "_", "A", "L", "L">>,
   <<"L", "C", "_", "C", "T", "Y", "P", "E">>,
   <<"D", "I", "S", "P", "L", "A", "Y">>,
   <<"C", "O", "L", "O", "R", "T", "E", "R", "M">>,
   <<"C", "O", "L", "U", "M", "N", "S">>, <<"L", "I", "N", "E", "S">>,
   <<"S", "S", "H", "_", "A", "U", "T", "H", "_", "S", "O", "C", "K">>,
   <<"S", "S", "H", "_", "C", "L", "I", "E", "N", "T">>,
   <<"S", "S", "H", "_", "C", "O", "N", "N", "E", "C", "T", "I", "O", "N">>,
   <<"S", "S", "H", "_", "T", "T", "Y">>,
   <<"X", "D", "G", "_", "S", "E", "S", "S", "I", "O", "N", "_", "I", "D">>,
   <<"X", "D", "G", "_", "R", "U", "N", "T", "I", "M", "E", "_", "D", "I", "R">>,
   <<"X", "D", "G", "_", "D", "A", "T", "A", "_", "D", "I", "R", "S">>,
   <<"X", "D", "G", "_", "C", "O", "N", "F", "I", "G", "_", "D", "I", "R", "S">>,
   <<"D", "B", "U", "S", "_", "S", "E", "S", "S", "I", "O", "N", "_", "B", "U", "S", "_", "A", "D", "D", "R", "E", "S", "S">>,
   <<"M", "A", "I", "L">>, <<"M", "A", "N", "P", "A", "T", "H">>,
   <<"P", "A", "G", "E", "R">>, <<"L", "E", "S", "S">>, <<"_">>}

\* ENV_PATTERNS.  Each pattern is an optional \b, a literal prefix, an
\* optional \s*, an optional quote, the group captured, the closing quote
\* of a quoted pattern, a literal suffix and an optional \b.  The group is
\* [A-Z][A-Z0-9_]+ when head is empty, and head followed by [A-Z0-9_]+
\* otherwise.
ENV_PATTERNS ==
  <<[wordStart |-> FALSE, prefix |-> <<"p", "r", "o", "c", "e", "s", "s", ".", "e", "n", "v", ".">>,
     space |-> FALSE, quoted |-> FALSE, head |-> <<>>,
     suffix |-> <<>>, wordEnd |-> FALSE],
    [wordStart |-> FALSE, prefix |-> <<"p", "r", "o", "c", "e", "s", "s", ".", "e", "n", "v", "[">>,
     space |-> FALSE, quoted |-> TRUE, head |-> <<>>,
     suffix |-> <<"]">>, wordEnd |-> FALSE],
    [wordStart |-> FALSE, prefix |-> <<"i", "m", "p", "o", "r", "t", ".", "m", "e", "t", "a", ".", "e", "n", "v", ".">>,
     space |-> FALSE, quoted |-> FALSE, head |-> <<>>,
     suffix |-> <<>>, wordEnd |-> FALSE],
    [wordStart |-> TRUE, prefix |-> <<>>,
     space |-> FALSE, quoted |-> FALSE, head |-> <<"N", "E", "X", "T", "_", "P", "U", "B", "L", "I", "C", "_">>,
     suffix |-> <<>>, wordEnd |-> TRUE],
    [wordStart |-> TRUE, prefix |-> <<>>,
     space |-> FALSE, quoted |-> FALSE, head |-> <<"R", "E", "A", "C", "T", "_", "A", "P", "P", "_">>,
     suffix |-> <<>>, wordEnd |-> TRUE],
    [wordStart |-> TRUE, prefix |-> <<>>,
     space |-> FALSE, quoted |-> FALSE, head |-> <<"V", "I", "T", "E", "_">>,
     suffix |-> <<>>, wordEnd |-> TRUE],
    [wordStart |-> TRUE, prefix |-> <<>>,
     space |-> FALSE, quoted |-> FALSE, head |-> <<"N", "U", "X", "T", "_">>,
     suffix |-> <<>>, wordEnd |-> TRUE],
    [wordStart |-> TRUE, prefix |-> <<>>,
     space |-> FALSE, quoted |-> FALSE, head |-> <<"E", "X", "P", "O", "_", "P", "U", "B", "L", "I", "C", "_">>,
     suffix |-> <<>>, wordEnd |-> TRUE],
    [wordStart |-> FALSE, prefix |-> <<"o", "s", ".", "e", "n", "v", "i", "r", "o", "n", ".", "g", "e", "t", "(">>,
     space |-> TRUE, quoted |-> TRUE, head |-> <<>>,
     suffix |-> <<>>, wordEnd |-> FALSE],
    [wordStart |-> FALSE, prefix |-> <<"o", "s", ".", "e", "n", "v", "i", "r", "o", "n", "[">>,
     space |-> FALSE, quoted |-> TRUE, head |-> <<>>,
     suffix |-> <<"]">>, wordEnd |-> FALSE],
    [wordStart |-> FALSE, prefix |-> <<"o", "s", ".", "g", "e", "t", "e", "n", "v", "(">>,
     space |-> TRUE, quoted |-> TRUE, head |-> <<>>,
     suffix |-> <<>>, wordEnd |-> FALSE],
    [wordStart |-> FALSE, prefix |-> <<"E", "N", "V", "[">>,
     space |-> FALSE, quoted |-> TRUE, head |-> <<>>,
     suffix |-> <<"]">>, wordEnd |-> FALSE],
    [wordStart |-> FALSE, prefix |-> <<"E", "N", "V", ".", "f", "e", "t", "c", "h", "(">>,
     space |-> TRUE, quoted |-> TRUE, head |-> <<>>,
     suffix |-> <<>>, wordEnd |-> FALSE],
    [wordStart |-> FALSE, prefix |-> <<"e", "n", "v", "(">>,
     space |-> TRUE, quoted |-> TRUE, head |-> <<>>,
     suffix |-> <<>>, wordEnd |-> FALSE],
    [wordStart |-> FALSE, prefix |-> <<"S", "y", "s", "t", "e", "m", ".", "g", "e", "t", "e", "n", "v", "(">>,
     space |-> TRUE, quoted |-> TRUE, head |-> <<>>,
     suffix |-> <<>>, wordEnd |-> FALSE],
    [wordStart |-> FALSE, prefix |-> <<"o", "s", ".", "G", "e", "t", "e", "n", "v", "(">>,
     space |-> TRUE, quoted |-> TRUE, head |-> <<>>,
     suffix |-> <<>>, wordEnd |-> FALSE],
    [wordStart |-> FALSE, prefix |-> <<"s", "t", "d", ":", ":", "e", "n", "v", ":", ":", "v", "a", "r", "(">>,
     space |-> TRUE, quoted |-> TRUE, head |-> <<>>,
     suffix |-> <<>>, wordEnd |-> FALSE],
    [wordStart |-> FALSE, prefix |-> <<DOLLAR, "{">>,
     space |-> FALSE, quoted |-> FALSE, head |-> <<>>,
     suffix |-> <<"}">>, wordEnd |-> FALSE],
    [wordStart |-> FALSE, prefix |-> <<DOLLAR>>,
     space |-> FALSE, quoted |-> FALSE, head |-> <<>>,
     suffix |-> <<>>, wordEnd |-> TRUE]>>

\* The text has the literal lit at position p.
hasAt(text, p, lit) ==
  /\ p + Len(lit) - 1 <= Len(text)
  /\ \A i \in 1..Len(lit) : text[p + i - 1] = lit[i]

\* The position after the longest run of white space from p.
RECURSIVE skipSpace(_, _)
skipSpace(text, p) ==
  IF p <= Len(text) /\ text[p] \in WhiteSpace THEN skipSpace(text, p + 1) ELSE p

\* The position after the longest run of [A-Z0-9_] from p.
RECURSIVE runEnd(_, _)
runEnd(text, p) ==
  IF p <= Len(text) /\ text[p] \in NameChars THEN runEnd(text, p + 1) ELSE p

\* \b before position p
isBoundary(text, p) ==
  (p - 1 >= 1 /\ text[p - 1] \in WordChars) # (p <= Len(text) /\ text[p] \in WordChars)

\* One attempt of regex.exec at position p: whether the pattern matches
\* there, match[1], and the position after the match.  The run captured is
\* the longest one, since what follows the group in every pattern cannot
\* match inside the run or after a shorter one.
matchAt(pat, text, p) ==
  LET a == p + Len(pat.prefix)
      b == IF pat.space THEN skipSpace(text, a) ELSE a
      c == IF pat.quoted THEN b + 1 ELSE b
      d == IF pat.head = <<>> THEN c + 1 ELSE c + Len(pat.head)
      e == runEnd(text, d)
      f == IF pat.quoted THEN e + 1 ELSE e
      g == f + Len(pat.suffix)
      ok == /\ pat.wordStart => isBoundary(text, p)
            /\ hasAt(text, p, pat.prefix)
            /\ pat.quoted => (b <= Len(text) /\ text[b] \in Quotes)
            /\ IF pat.head = <<>>
               THEN c <= Len(text) /\ text[c] \in Range(Upper)
               ELSE hasAt(text, c, pat.head)
            /\ e > d
            /\ pat.quoted => (e <= Len(text) /\ text[e] \in Quotes)
            /\ hasAt(text, f, pat.suffix)
            /\ pat.wordEnd => isBoundary(text, e)
  IN  [ok |-> ok,
       name |-> IF ok THEN SubSeq(text, c, e - 1) ELSE <<>>,
       end |-> IF ok THEN g ELSE p]

\* The values of match[1] of the loop while ((match = regex.exec(content)))
\* from position p on.
RECURSIVE execAll(_, _, _)
execAll(pat, text, p) ==
  IF p > Len(text) THEN <<>>
  ELSE LET m == matchAt(pat, text, p)
       IN  IF m.ok THEN <<m.name>> \o execAll(pat, text, m.end)
           ELSE execAll(pat, text, p + 1)

\* foundVars.get(name).add(file), with foundVars.set(name, new Set()) first
\* for a new name.
addFound(found, name, file) ==
  IF mapHas(found, name)
  THEN [i \in 1..Len(found) |->
          IF found[i].key = name /\ file \notin Range(found[i].value)
          THEN [key |-> name, value |-> Append(found[i].value, file)]
          ELSE found[i]]
  ELSE Append(found, [key |-> name, value |-> <<file>>])

\* The tests of scanCodebase without the one against BLACKLIST.
keepNameAnyListed(name) ==
  /\ name # <<>>
  /\ Len(name) >= 3

\* The tests of scanCodebase on match[1]: not empty, not in BLACKLIST, at
\* least three characters.
keepName(name) ==
  /\ name # <<>>
  /\ name \notin BLACKLIST
  /\ Len(name) >= 3

\* The names matched by one pattern put into foundVars.
RECURSIVE addNames(_, _, _)
addNames(found, names, file) ==
  IF names = <<>> THEN found
  ELSE addNames(IF keepName(names[1]) THEN addFound(found, names[1], file)
                ELSE found,
                Tail(names), file)

\* for (const regex of ENV_PATTERNS), from pattern i on.
RECURSIVE scanPatterns(_, _, _)
scanPatterns(found, i, file) ==
  IF i > Len(ENV_PATTERNS) THEN found
  ELSE scanPatterns(addNames(found, execAll(ENV_PATTERNS[i], file.content, 1),
                             file.name),
                    i + 1, file)

\* for (const filePath of files): .env and .env.local are left out.
RECURSIVE scanEachFile(_, _)
scanEachFile(found, files) ==
  IF files = <<>> THEN found
  ELSE scanEachFile(IF files[1].name \in {".env", ".env.local"} THEN found
                    ELSE scanPatterns(found, 1, files[1]),
                    Tail(files))

\* scanCodebase, given the files glob.sync returned and the extra files
\* that exist.
scanCodebase(files) == scanEachFile(<<>>, files)

\* /^[A-Z][A-Z0-9_]+$/.test(key)
isEnvName(key) ==
  /\ Len(key) >= 2
  /\ key[1] \in Range(Upper)
  /\ \A i \in 2..Len(key) : key[i] \in NameChars

\* extractEnvKeysFromContent, from the lines left: the keys in the order
\* they were added to the Set.
RECURSIVE extractKeys(_, _)
extractKeys(lines, keys) ==
  IF lines = <<>> THEN keys
  ELSE LET trimmed == trim(lines[1])
           eqIndex == indexOf(trimmed, EQ)
           key == trim(substring(trimmed, 0, eqIndex))
           keep == /\ trimmed # <<>>
                   /\ ~startsWith(trimmed, HASH)
                   /\ eqIndex # -1
                   /\ key # <<>>
                   /\ isEnvName(key)
                   /\ key \notin BLACKLIST
                   /\ key \notin Range(keys)
       IN  extractKeys(Tail(lines), IF keep THEN Append(keys, key) ELSE keys)

extractEnvKeysFromContent(content) == extractKeys(split(content), <<>>)

\* ENV_SOURCE_FILES
ENV_SOURCE_FILES ==
  <<".env", ".env.local", ".env.development", ".env.production", EnvExample,
    ".env.sample", ".env.template", ".env.local.example">>

\* for (const key of keys): the keys of one file put into foundVars.
RECURSIVE addKeys(_, _, _)
addKeys(found, keys, file) ==
  IF keys = <<>> THEN found
  ELSE addKeys(addFound(found, keys[1], file), Tail(keys), file)

\* for (const file of ENV_SOURCE_FILES), from file i on: a file that does
\* not exist is passed over.
RECURSIVE scanSourceFiles(_, _, _)
scanSourceFiles(found, i, files) ==
  IF i > Len(ENV_SOURCE_FILES) THEN found
  ELSE LET here == {j \in 1..Len(files) : files[j].name = ENV_SOURCE_FILES[i]}
       IN  scanSourceFiles(
             IF here = {} THEN found
             ELSE addKeys(found,
                          extractEnvKeysFromContent(files[CHOOSE j \in here : TRUE].content),
                          ENV_SOURCE_FILES[i]),
             i + 1, files)

\* scanEnvFilesOnly, given the files that exist.
scanEnvFilesOnly(files) == scanSourceFiles(<<>>, 1, files)

\* What fs.existsSync and glob.sync show of the folder: nothing of a folder
\* that is missing or cannot be read; glob.sync is not called with strict
\* and returns no file instead of throwing.
visibleFiles(readable, files) == IF readable THEN files ELSE <<>>

\* The names referred to in the files of the model: one of BLACKLIST, one
\* other name and one of two characters.
RefNames ==
  {<<"P", "A", "T", "H">>, <<"A", "P", "I", "_", "K", "E", "Y">>, <<"A", "B">>}

\* What a reference is made of: the text before the name and the text
\* after it, one pair for each pattern, and the bare name.
RefForms ==
  {[open |-> <<"p", "r", "o", "c", "e", "s", "s", ".", "e", "n", "v", ".">>,
     close |-> <<>>],
    [open |-> <<"p", "r", "o", "c", "e", "s", "s", ".", "e", "n", "v", "[", DQ>>,
     close |-> <<DQ, "]">>],
    [open |-> <<"i", "m", "p", "o", "r", "t", ".", "m", "e", "t", "a", ".", "e", "n", "v", ".">>,
     close |-> <<>>],
    [open |-> <<"N", "E", "X", "T", "_", "P", "U", "B", "L", "I", "C", "_">>,
     close |-> <<>>],
    [open |-> <<"R", "E", "A", "C", "T", "_", "A", "P", "P", "_">>,
     close |-> <<>>],
    [open |-> <<"V", "I", "T", "E", "_">>,
     close |-> <<>>],
    [open |-> <<"N", "U", "X", "T", "_">>,
     close |-> <<>>],
    [open |-> <<"E", "X", "P", "O", "_", "P", "U", "B", "L", "I", "C", "_">>,
     close |-> <<>>],
    [open |-> <<"o", "s", ".", "e", "n", "v", "i", "r", "o", "n", ".", "g", "e", "t", "(", DQ>>,
     close |-> <<DQ>>],
    [open |-> <<"o", "s", ".", "e", "n", "v", "i", "r", "o", "n", "[", SQ>>,
     close |-> <<SQ, "]">>],
    [open |-> <<"o", "s", ".", "g", "e", "t", "e", "n", "v", "(", DQ>>,
     close |-> <<DQ>>],
    [open |-> <<"E", "N", "V", "[", DQ>>,
     close |-> <<DQ, "]">>],
    [open |-> <<"E", "N", "V", ".", "f", "e", "t", "c", "h", "(", DQ>>,
     close |-> <<DQ>>],
    [open |-> <<"e", "n", "v", "(", SP, SQ>>,
     close |-> <<SQ>>],
    [open |-> <<"S", "y", "s", "t", "e", "m", ".", "g", "e", "t", "e", "n", "v", "(", DQ>>,
     close |-> <<DQ>>],
    [open |-> <<"o", "s", ".", "G", "e", "t", "e", "n", "v", "(", DQ>>,
     close |-> <<DQ>>],
    [open |-> <<"s", "t", "d", ":", ":", "e", "n", "v", ":", ":", "v", "a", "r", "(", DQ>>,
     close |-> <<DQ>>],
    [open |-> <<DOLLAR, "{">>,
     close |-> <<"}">>],
    [open |-> <<DOLLAR>>,
     close |-> <<>>],
    [open |-> <<>>, close |-> <<>>]}

\* One reference: the name may be followed by a lower-case letter.
Refs ==
  {f.open \o n \o t \o f.close : f \in RefForms, n \in RefNames, t \in {<<>>, <<"x">>}}

\* s[1] s[2] ... with one space in between
RECURSIVE joinSpace(_)
joinSpace(s) ==
  IF s = <<>> THEN <<>>
  ELSE IF Len(s) = 1 THEN s[1]
  ELSE s[1] \o <<SP>> \o joinSpace(Tail(s))

CodeFile == "app.js"

\* A code file with up to MaxRefs references.
CodeFiles ==
  {<<[name |-> CodeFile, content |-> joinSpace(rs)]>> :
     rs \in SeqsUpTo(Refs, MaxRefs) \ {<<>>}}

\* The lines of an env file of the folder scanned.
EnvLines ==
  { <<"P", "A", "T", "H", EQ, "1">>,
    <<"A", "P", "I", "_", "K", "E", "Y", EQ, "1">>,
    <<"A", "B", EQ>>,
    <<SP, "C", "I", SP, EQ, SP, "2">>,
    <<HASH, "A", "P", "I", "_", "K", "E", "Y", EQ, "1">>,
    <<EQ, "v">>,
    <<"a", "p", "i", EQ, "1">> }

\* An env file with up to MaxRefs lines.
EnvFiles ==
  {<<[name |-> EnvExample, content |-> join(ls) \o <<NL>>]>> :
     ls \in SeqsUpTo(EnvLines, MaxRefs) \ {<<>>}}

\* processFolder before the scan.
InitScan ==
  /\ fileExists = FALSE
  /\ fileContent = <<>>
  /\ prevExists = FALSE
  /\ prevContent = <<>>
  /\ lastVars = <<>>
  /\ ret = -1
  /\ calls = 0
  /\ arg = <<>>
  /\ pc = "scan"
  /\ foundVars = <<>>
  /\ existingEnv = <<>>
  /\ counts = NoCounts
  /\ varList = <<>>
  /\ idx = 0
  /\ results = <<>>
  /\ savedCount = 0
  /\ lastInput = NoInput
  /\ lastIdx = 0
  /\ rootReadable \in BOOLEAN
  /\ isDeepScan \in BOOLEAN
  /\ scanFiles \in IF isDeepScan /\ rootReadable
                    THEN CodeFiles \cup {<<>>}
                    ELSE EnvFiles \cup {<<>>}
  /\ SyncIdle
  /\ WalkIdle
  /\ MainIdle
  /\ PasteIdle
  /\ SummaryIdle

\* foundVars = isDeepScan ? scanCodebase(folderPath) :
\* scanEnvFilesOnly(folderPath), and the test foundVars.size === 0.  Neither
\* function throws, so the catch of processFolder is not entered.
Scan ==
  /\ pc = "scan"
  /\ foundVars' = IF isDeepScan
                  THEN scanCodebase(visibleFiles(rootReadable, scanFiles))
                  ELSE scanEnvFilesOnly(visibleFiles(rootReadable, scanFiles))
  /\ pc' = IF Len(foundVars') = 0 THEN "novars" ELSE "parse"
  /\ UNCHANGED <<fileVars, calls, arg, existingEnv, counts, varList, idx, results,
                 savedCount, lastInput, lastIdx, scanVars>>
  /\ UNCHANGED syncVars
  /\ UNCHANGED walkVars
  /\ UNCHANGED mainVars
  /\ UNCHANGED pasteVars
  /\ UNCHANGED summaryVars

NextScan == Scan

SpecScan == InitScan /\ [][NextScan]_vars

\* C19: a scan of a folder that is missing or cannot be read fails with an
\* error, in deep and in shallow mode, and does not end as a scan that
\* found no variables.
C19_UnreadableRootFails ==
  (~rootReadable /\ pc # "scan") => (pc = "scanfailed")

\* C20: no name of the deny-list is a key of the scan result, in deep mode
\* whichever pattern matched it and in shallow mode when an env file
\* declares it.
C20_NoDenyListedKey ==
  (pc # "scan") => (mapKeys(foundVars) \cap BLACKLIST = {})

\* C20 witness: a deep scan is over of a file that can be read and whose
\* text is ${PATH}.
C20_Witness ==
  /\ pc # "scan"
  /\ isDeepScan
  /\ rootReadable
  /\ scanFiles = <<[name |-> CodeFile, content |-> <<DOLLAR, "{", "P", "A", "T", "H", "}">>]>>

\* C21: every key of the scan result has at least three characters, in
\* deep mode and in shallow mode.
C21_KeysAtLeastThree ==
  (pc # "scan") => (\A k \in mapKeys(foundVars) : Len(k) >= 3)

(***************************************************************************)
(* syncToEnvExample (writer.js) and its call in processFolder.             *)
(***************************************************************************)
\* The lines of the header of a new example file.
HeaderLines ==
  <<<<HASH, SP, "E", "n", "v", "i", "r", "o", "n", "m", "e", "n", "t",
      SP, "V", "a", "r", "i", "a", "b", "l", "e", "s">>,
    <<HASH, SP, "C", "o", "p", "y", SP, "t", "h", "i", "s", SP, "f", "i",
      "l", "e", SP, "t", "o", SP, ".", "e", "n", "v", SP, "a", "n", "d",
      SP, "f", "i", "l", "l", SP, "i", "n", SP, "t", "h", "e", SP, "v",
      "a", "l", "u", "e", "s">>,
    <<>>>>

\* The lines syncToEnvExample starts from, each one trimmed.
syncStartLinesTrimmed(exists, content) ==
  IF exists THEN [i \in 1..Len(split(content)) |-> trim(split(content)[i])]
  ELSE HeaderLines

\* The lines syncToEnvExample starts from: those of the file, or the header.
syncStartLines(exists, content) ==
  IF exists THEN split(content) ELSE HeaderLines

\* existingKeys: the keys, not empty, of the KEY=VALUE lines of the file.
syncExistingKeys(exists, content) ==
  IF exists
  THEN {lineKey(l) : l \in {x \in Range(split(content)) : lineIsEntry(x)}} \ {<<>>}
  ELSE {}

\* keys.filter(k => !S.has(k))
RECURSIVE filterNotIn(_, _)
filterNotIn(keys, S) ==
  IF keys = <<>> THEN <<>>
  ELSE (IF keys[1] \in S THEN <<>> ELSE <<keys[1]>>) \o filterNotIn(Tail(keys), S)

\* keysToAdd that holds every key.
syncKeysToAddAll(keys, existingKeys) == keys

\* const keysToAdd = keys.filter(k => !existingKeys.has(k))
syncKeysToAdd(keys, existingKeys) == filterNotIn(keys, existingKeys)

\* The lines with the blank separator and one line KEY= for each key to add.
syncAppend(lines, keysToAdd) ==
  lines
  \o (IF Len(lines) > 0 /\ trim(lines[Len(lines)]) # <<>> THEN <<<<>>>> ELSE <<>>)
  \o [i \in 1..Len(keysToAdd) |-> keysToAdd[i] \o <<EQ>>]

\* syncToEnvExample: the number returned, whether the file is written, and
\* the content written.
syncToEnvExample(exists, content, keys) ==
  LET keysToAdd == syncKeysToAdd(keys, syncExistingKeys(exists, content))
      lines == syncAppend(syncStartLines(exists, content), keysToAdd)
  IN  IF Len(keysToAdd) = 0
      THEN [count |-> 0, written |-> FALSE, content |-> content]
      ELSE [count |-> Len(keysToAdd), written |-> TRUE,
            content |-> stripTrailingNewlines(join(lines)) \o <<NL>>]

\* The directory path.resolve(".env.example") resolves in, taken to be the
\* folder processed.
exampleDirOfFolder(dir) == dir

\* The directory path.resolve(".env.example") resolves in: the working
\* directory of the process, whichever folder is processed.
exampleDir(dir) == "cwd"

Dirs == {"cwd", "sub"}

NoFile == [exists |-> FALSE, content |-> <<>>]

\* Lines of an example file: a key without value, a key with white space
\* around and a value, a comment that names a key, and a line of spaces.
ExampleLines ==
  { <<"K", "A", EQ>>,
    <<SP, "K", "B", SP, EQ, "1">>,
    <<HASH, "K", "A", EQ>>,
    <<SP, SP>> }

\* The example file of the working directory: missing, or up to MaxLines
\* lines with or without a final newline.
ExampleStates ==
  {NoFile} \cup
  {[exists |-> TRUE, content |-> join(ls) \o t] :
     ls \in SeqsUpTo(ExampleLines, MaxLines), t \in {<<>>, <<NL>>}}

\* The example file inside a folder that is not the working directory.
SubExampleStates ==
  {NoFile, [exists |-> TRUE, content |-> <<"K", "B", EQ, NL>>]}

\* The lists of saved keys handed to syncToEnvExample.
SyncKeyLists == {foundKeys(f) : f \in FoundSet}

\* processFolder with saved keys to mirror.
InitSync ==
  /\ fileExists = FALSE
  /\ fileContent = <<>>
  /\ prevExists = FALSE
  /\ prevContent = <<>>
  /\ lastVars = <<>>
  /\ ret = -1
  /\ calls = 0
  /\ arg = <<>>
  /\ SessIdle
  /\ ScanIdle
  /\ folder \in Dirs
  /\ exampleFiles \in [Dirs -> ExampleStates \cup SubExampleStates]
  /\ exampleFiles["cwd"] \in ExampleStates
  /\ exampleFiles["sub"] \in IF folder = "sub" THEN SubExampleStates ELSE {NoFile}
  /\ syncLog = <<>>
  /\ WalkIdle
  /\ MainIdle
  /\ PasteIdle
  /\ SummaryIdle

\* const synced = syncToEnvExample(savedKeys), with what it does to the
\* file at path.resolve(".env.example").
syncCall(dir, keys) ==
  LET d == exampleDir(dir)
      out == syncToEnvExample(exampleFiles[d].exists, exampleFiles[d].content, keys)
  IN  /\ exampleFiles' = IF out.written
                         THEN [exampleFiles EXCEPT ![d] = [exists |-> TRUE,
                                                           content |-> out.content]]
                         ELSE exampleFiles
      /\ syncLog' = Append(syncLog, [keys |-> keys, ret |-> out.count,
                                     dir |-> dir,
                                     before |-> exampleFiles,
                                     after |-> exampleFiles'])

SyncKeys ==
  /\ Len(syncLog) < MaxSyncs
  /\ \E keys \in SyncKeyLists : syncCall(folder, keys)
  /\ UNCHANGED <<fileVars, calls, arg, sessVars, scanVars, folder>>
  /\ UNCHANGED walkVars
  /\ UNCHANGED mainVars
  /\ UNCHANGED pasteVars
  /\ UNCHANGED summaryVars

NextSync == SyncKeys

SpecSync == InitSync /\ [][NextSync]_vars

(***************************************************************************)
(* The end of the interactive session, and the session as a whole.         *)
(***************************************************************************)
\* [...newValues.keys()], [...bulkVars.keys()]
keysList(m) == [i \in 1..Len(m) |-> m[i].key]

\* The end of processFolder after promptForValues: showSummary(0) when no
\* value came back, else ensureGitignore (which only reads),
\* syncToEnvExample with the keys of newValues, and showSummary(savedCount).
Finish ==
  /\ pc = "done"
  /\ pc' = "returned"
  /\ IF results = <<>>
       THEN /\ reported' = 0
            /\ UNCHANGED syncVars
       ELSE /\ syncCall(folder, keysList(results))
            /\ reported' = savedCount
            /\ UNCHANGED folder
  /\ UNCHANGED <<fileVars, calls, arg, foundVars, existingEnv, counts, varList,
                 idx, results, savedCount, lastInput, lastIdx>>
  /\ UNCHANGED <<scanVars, walkVars, mainVars, pasteVars>>

NextSession ==
  \/ ParseExisting
  \/ ShowScanResult
  \/ AskMode
  \/ AnswerExit
  \/ AnswerHelp
  \/ AnswerBack
  \/ AnswerSkip
  \/ AnswerSkipAll
  \/ AnswerSave
  \/ AnswerSaveFails
  \/ Finish

SpecSession == InitSession /\ [][NextSession]_vars

(***************************************************************************)
(* Properties of syncToEnvExample.                                         *)
(***************************************************************************)
\* The lines of an example file, none when it is missing; the final empty
\* string that split gives for a content ending in a newline is left out.
LinesOf(f) ==
  IF ~f.exists THEN <<>>
  ELSE LET ls == split(f.content)
       IN  IF ls[Len(ls)] = <<>> THEN SubSeq(ls, 1, Len(ls) - 1) ELSE ls

\* The lines that are not blank, in order.
RECURSIVE NonBlank(_)
NonBlank(ls) ==
  IF ls = <<>> THEN <<>>
  ELSE (IF trim(ls[1]) = <<>> THEN <<>> ELSE <<ls[1]>>) \o NonBlank(Tail(ls))

\* The number of KEY=VALUE lines of key k in an example file.
KeyLineCount(f, k) == Cardinality(LinesOfKey(LinesOf(f), k))

\* C22: a second syncToEnvExample call with the same key set returns 0 and
\* leaves the example file as it is; a call adds one line for a key that
\* had none and no line for a key that had one, so no key gets a second
\* line.
C22_SecondRunAddsNothing ==
  \A i \in 1..Len(syncLog) :
    LET e == syncLog[i]
    IN  /\ (i > 1 /\ Range(e.keys) = Range(syncLog[i - 1].keys)) =>
             (e.ret = 0 /\ e.after = e.before)
        /\ \A k \in Range(e.keys) :
             KeyLineCount(e.after["cwd"], k) =
               IF KeyLineCount(e.before["cwd"], k) = 0 THEN 1
               ELSE KeyLineCount(e.before["cwd"], k)

\* C22 witness: two calls with the keys KA and KB were made, the first
\* added both and the second returned 0.
C22_Witness ==
  /\ Len(syncLog) = 2
  /\ syncLog[1].keys = <<KA, KB>>
  /\ syncLog[2].keys = <<KA, KB>>
  /\ syncLog[1].ret = 2
  /\ syncLog[2].ret = 0
  /\ syncLog[1].before["cwd"].exists

\* s is the beginning of t.
IsPrefix(s, t) == Len(s) <= Len(t) /\ SubSeq(t, 1, Len(s)) = s

\* The keys of the KEY=VALUE lines of an example file.
KeysOf(f) == KeysInLines(LinesOf(f))

\* The lines of the file after a call that are not blank and were not
\* there before, given that those before are its beginning.
AddedLines(e) ==
  LET b == NonBlank(LinesOf(e.before["cwd"]))
      a == NonBlank(LinesOf(e.after["cwd"]))
  IN  SubSeq(a, Len(b) + 1, Len(a))

\* Every line of ls is KEY= for a key of the call that the file did not
\* have.
AreNewKeyLines(ls, e) ==
  \A j \in 1..Len(ls) :
    \E k \in Range(e.keys) \ KeysOf(e.before["cwd"]) : ls[j] = k \o <<EQ>>

\* The lines that were there and are not blank are kept as they are and in
\* order, at the beginning of the file; a call that returns 0 leaves the
\* file as it is, missing if it was missing.
KeepsLines(e) ==
  /\ IsPrefix(NonBlank(LinesOf(e.before["cwd"])), NonBlank(LinesOf(e.after["cwd"])))
  /\ e.ret = 0 => e.after = e.before

\* C23 as stated: syncToEnvExample only appends: the lines that are not
\* blank stay as they are and in order, every line added is KEY= for a key
\* that was not present, and a call with no key to add neither creates nor
\* rewrites the file.
C23_OnlyAppendsKeyLines ==
  \A i \in 1..Len(syncLog) :
    /\ KeepsLines(syncLog[i])
    /\ AreNewKeyLines(AddedLines(syncLog[i]), syncLog[i])

\* C23: as above for a file that is there; when the file is missing and a
\* key is to be added, the file is created with two comment lines as its
\* header, followed by the lines KEY=.
C23_AppendsKeyLinesOrCreates ==
  \A i \in 1..Len(syncLog) :
    LET e == syncLog[i]
        added == AddedLines(e)
    IN  /\ KeepsLines(e)
        /\ IF e.before["cwd"].exists \/ e.ret = 0
           THEN AreNewKeyLines(added, e)
           ELSE /\ Len(added) = 2 + e.ret
                /\ IsComment(added[1])
                /\ IsComment(added[2])
                /\ AreNewKeyLines(SubSeq(added, 3, Len(added)), e)

\* C23 witness: a call has added KB to a file that had a line of spaces
\* and the line of KA, which it kept.
C23_Witness ==
  /\ Len(syncLog) >= 1
  /\ syncLog[1].keys = <<KA, KB>>
  /\ syncLog[1].ret = 1
  /\ LinesOf(syncLog[1].before["cwd"]) = <<<<SP, SP>>, <<"K", "A", EQ>>>>
  /\ NonBlank(LinesOf(syncLog[1].after["cwd"])) = <<<<"K", "A", EQ>>, <<"K", "B", EQ>>>>

\* C30: a call made while a folder other than the working directory is
\* processed reads and writes the .env.example of the working directory:
\* the keys handed over are all there afterwards, and the .env.example
\* inside the folder is neither created nor changed.
C30_SyncsWorkingDirectory ==
  \A i \in 1..Len(syncLog) :
    LET e == syncLog[i]
    IN  (e.dir = "sub") =>
          /\ e.after["sub"] = e.before["sub"]
          /\ Range(e.keys) \subseteq KeysOf(e.after["cwd"])

\* C30 witness: while another folder was processed whose own .env.example
\* lacks KA, KA was added to the .env.example of the working directory.
C30_Witness ==
  /\ Len(syncLog) >= 1
  /\ syncLog[1].dir = "sub"
  /\ syncLog[1].ret >= 1
  /\ syncLog[1].before["sub"].exists
  /\ KA \notin KeysOf(syncLog[1].before["sub"])
  /\ KA \notin KeysOf(syncLog[1].before["cwd"])
  /\ KA \in KeysOf(syncLog[1].after["cwd"])

(***************************************************************************)
(* discoverEnvFolders (scanner.js): the walk over the directories.         *)
(***************************************************************************)
\* The deepest level at which walk still looks at a directory.
MaxWalkDepth == 8

\* SKIP_DIRS.
SKIP_DIRS ==
  {<<"n", "o", "d", "e", "_", "m", "o", "d", "u", "l", "e", "s">>,
   <<".", "g", "i", "t">>,
   <<"d", "i", "s", "t">>,
   <<"b", "u", "i", "l", "d">>,
   <<".", "n", "e", "x", "t">>,
   <<".", "n", "u", "x", "t">>,
   <<".", "o", "u", "t", "p", "u", "t">>,
   <<"c", "o", "v", "e", "r", "a", "g", "e">>,
   <<"_", "_", "p", "y", "c", "a", "c", "h", "e", "_", "_">>,
   <<"v", "e", "n", "d", "o", "r">>,
   <<".", "v", "e", "n", "v">>,
   <<"v", "e", "n", "v">>,
   <<"t", "a", "r", "g", "e", "t">>,
   <<".", "c", "a", "c", "h", "e">>,
   <<".", "t", "u", "r", "b", "o">>}

\* if (depth > 8) return, without the test.
tooDeepNever(depth) == FALSE

\* if (depth > 8) return.
tooDeep(depth) == depth > MaxWalkDepth

\* The entries the loop of walk passes over: what is not a directory (a
\* symbolic link is not one for Dirent.isDirectory), a name of SKIP_DIRS, a
\* name that starts with a dot.
skipEntry(entry) ==
  \/ entry.kind # "dir"
  \/ entry.name \in SKIP_DIRS
  \/ (startsWith(entry.name, ".") /\ entry.name # <<".">>)

\* walk(dir, depth) up to its loop: the call is noted, a directory past the
\* depth limit is left at once, a directory with an env file is pushed to
\* results, and a directory that cannot be read is left without its entries.
walkEnter(t, stack, res, log, dir, depth) ==
  LET found == t[dir].envFiles
      res1  == IF found THEN Append(res, [relPath |-> dir, depth |-> depth])
               ELSE res
      log1  == Append(log, [dir |-> dir, depth |-> depth])
  IN IF tooDeep(depth)
       THEN [stack |-> stack, results |-> res, log |-> log1]
     ELSE IF ~t[dir].readable
       THEN [stack |-> stack, results |-> res1, log |-> log1]
     ELSE [stack |-> <<[dir |-> dir, depth |-> depth,
                        rest |-> t[dir].entries]>> \o stack,
           results |-> res1, log |-> log1]

\* The names of the directories of the trees.
DirD == <<"d">>
DirU == <<"u">>
DirDot == <<".", "x">>
DirSkip == <<"n", "o", "d", "e", "_", "m", "o", "d", "u", "l", "e", "s">>
LinkL == <<"l">>
FileF == <<"f">>

\* The longest chain of nested directories under the working directory.
MaxChain == 10

\* The directory n levels down the chain.
chainPath(n) == [i \in 1..n |-> DirD]

\* The entry a tree has next to its chain: a directory of SKIP_DIRS, a
\* dot-prefixed directory, a directory that cannot be read, a symbolic link
\* to the working directory, a file, or nothing.
NoExtra == [name |-> <<>>, kind |-> "none", readable |-> TRUE]

Extras ==
  {NoExtra,
   [name |-> DirSkip, kind |-> "dir", readable |-> TRUE],
   [name |-> DirDot, kind |-> "dir", readable |-> TRUE],
   [name |-> DirU, kind |-> "dir", readable |-> FALSE],
   [name |-> LinkL, kind |-> "link", readable |-> TRUE],
   [name |-> FileF, kind |-> "file", readable |-> TRUE]}

\* The tree with a chain of len directories, the entry extra in the
\* directory at level at, an env file in every directory, and a working
\* directory that can be read or not.
TreeOf(len, at, extra, rootOk) ==
  LET home == chainPath(at)
      side == home \o <<extra.name>>
      sides == IF extra.kind = "dir" THEN {side, side \o <<DirD>>} ELSE {}
      node(p) ==
        IF p = side
          THEN [readable |-> extra.readable, envFiles |-> TRUE,
                entries |-> <<[name |-> DirD, kind |-> "dir"]>>]
        ELSE IF p \in sides
          THEN [readable |-> TRUE, envFiles |-> TRUE, entries |-> <<>>]
        ELSE [readable |-> (p # <<>> \/ rootOk), envFiles |-> TRUE,
              entries |->
                (IF p = home /\ extra.kind # "none"
                   THEN <<[name |-> extra.name, kind |-> extra.kind]>>
                   ELSE <<>>)
                \o (IF Len(p) < len
                      THEN <<[name |-> DirD, kind |-> "dir"]>>
                      ELSE <<>>)]
  IN [p \in {chainPath(n) : n \in 0..len} \cup sides |-> node(p)]

InitWalk ==
  /\ fileExists = FALSE
  /\ fileContent = <<>>
  /\ prevExists = FALSE
  /\ prevContent = <<>>
  /\ lastVars = <<>>
  /\ ret = 0
  /\ calls = 0
  /\ arg = <<>>
  /\ pc = "discover"
  /\ foundVars = <<>>
  /\ existingEnv = <<>>
  /\ counts = NoCounts
  /\ varList = <<>>
  /\ idx = 0
  /\ results = <<>>
  /\ savedCount = 0
  /\ lastInput = NoInput
  /\ lastIdx = 0
  /\ ScanIdle
  /\ SyncIdle
  /\ MainIdle
  /\ \E len \in 0..MaxChain : \E at \in 0..len : \E extra \in Extras :
       \E rootOk \in BOOLEAN :
         tree = TreeOf(len, at, extra, rootOk)
  /\ walkStack = <<>>
  /\ walkLog = <<>>
  /\ folders = <<>>
  /\ PasteIdle
  /\ SummaryIdle

\* What an action of the walk leaves alone.
WalkFrame ==
  UNCHANGED <<fileVars, calls, arg, foundVars, existingEnv, counts, varList,
              idx, results, savedCount, lastInput, lastIdx, scanVars,
              syncVars, mainVars, tree>>

\* The walk goes on while a call of walk is in progress.
walkPc(stack) == IF stack = <<>> THEN "folders" ELSE "walk"

\* walk(cwd, 0).
Discover ==
  /\ pc = "discover"
  /\ LET w == walkEnter(tree, walkStack, folders, walkLog, <<>>, 0)
     IN /\ walkStack' = w.stack
        /\ folders' = w.results
        /\ walkLog' = w.log
        /\ pc' = walkPc(w.stack)
  /\ WalkFrame
  /\ UNCHANGED pasteVars
  /\ UNCHANGED summaryVars

\* One turn of for (const entry of entries), with the call of walk it makes.
WalkEntry ==
  /\ pc = "walk"
  /\ walkStack # <<>>
  /\ Head(walkStack).rest # <<>>
  /\ LET top   == Head(walkStack)
         entry == Head(top.rest)
         stack == <<[top EXCEPT !.rest = Tail(top.rest)]>> \o Tail(walkStack)
         w     == IF skipEntry(entry)
                    THEN [stack |-> stack, results |-> folders,
                          log |-> walkLog]
                    ELSE walkEnter(tree, stack, folders, walkLog,
                                   Append(top.dir, entry.name), top.depth + 1)
     IN /\ walkStack' = w.stack
        /\ folders' = w.results
        /\ walkLog' = w.log
        /\ pc' = "walk"
  /\ WalkFrame
  /\ UNCHANGED pasteVars
  /\ UNCHANGED summaryVars

\* The loop of a call of walk is over: the call returns, and the last one
\* returns results.
WalkReturn ==
  /\ pc = "walk"
  /\ walkStack # <<>>
  /\ Head(walkStack).rest = <<>>
  /\ walkStack' = Tail(walkStack)
  /\ pc' = walkPc(Tail(walkStack))
  /\ UNCHANGED <<folders, walkLog>>
  /\ WalkFrame
  /\ UNCHANGED pasteVars
  /\ UNCHANGED summaryVars

NextWalk == Discover \/ WalkEntry \/ WalkReturn

\* discoverEnvFolders is synchronous code: once called it runs on.
SpecWalk == InitWalk /\ [][NextWalk]_vars /\ WF_vars(NextWalk)

(***************************************************************************)
(* Properties of discoverEnvFolders.                                       *)
(***************************************************************************)
\* The directories on the way to dir, dir left out.
Above(dir) == {SubSeq(dir, 1, n) : n \in 0..(Len(dir) - 1)}

\* No recorded folder lies more than 8 levels below the working directory.
RecordsWithinDepth ==
  \A i \in 1..Len(folders) : Len(folders[i].relPath) <= 8

\* No call of walk is for a directory in or under a directory of SKIP_DIRS
\* or a dot-prefixed directory.
NeverInSkipped ==
  \A i \in 1..Len(walkLog) : \A j \in 1..Len(walkLog[i].dir) :
    /\ walkLog[i].dir[j] \notin SKIP_DIRS
    /\ walkLog[i].dir[j][1] # "."

\* No call of walk is for a directory under one that cannot be read.
NeverUnderUnreadable ==
  \A i \in 1..Len(walkLog) : \A p \in Above(walkLog[i].dir) :
    tree[p].readable

\* C25: discoverEnvFolders terminates on every tree, records no folder more
\* than 8 levels below the working directory, never descends into a
\* directory of SKIP_DIRS or a dot-prefixed directory, and stops descending
\* at a directory it cannot read, without failing.
C25_WalkBoundedAndTerminates ==
  /\ [](RecordsWithinDepth /\ NeverInSkipped /\ NeverUnderUnreadable)
  /\ <>(pc = "folders")

\* The walk is over on a tree with a chain past the depth limit, which it
\* left at level 9, and with a directory it could not read, after which it
\* went on down the chain.
C25_Witness ==
  /\ pc = "folders"
  /\ \E i \in 1..Len(walkLog) : walkLog[i].depth = 9
  /\ \E i \in 1..Len(walkLog) :
       /\ ~tree[walkLog[i].dir].readable
       /\ walkLog[i].dir # <<>>
       /\ \E j \in (i + 1)..Len(walkLog) : walkLog[j].depth > walkLog[i].depth
  /\ Len(folders) = 10

(***************************************************************************)
(* main (index.js): the folder selection and the loop over the folders.    *)
(***************************************************************************)
\* The most folders discoverEnvFolders hands to main.
MaxFolders == 3

\* A processFolder call that was not made yet.
Waiting == [phase |-> "waiting", saved |-> 0, left |-> 0]

\* The phases in which a processFolder call is in progress: it waits for
\* askEnvFile, askMode or promptForValues.
ActivePhases == {"askEnvFile", "askMode", "prompt"}

\* The lists discoverEnvFolders returns: one folder per level, from the
\* working directory down.
FolderLists ==
  {[i \in 1..n |-> [relPath |-> chainPath(i - 1), depth |-> i - 1]] :
     n \in 0..MaxFolders}

InitMain ==
  /\ fileExists = FALSE
  /\ fileContent = <<>>
  /\ prevExists = FALSE
  /\ prevContent = <<>>
  /\ lastVars = <<>>
  /\ ret = 0
  /\ calls = 0
  /\ arg = <<>>
  /\ pc = "folders"
  /\ foundVars = <<>>
  /\ existingEnv = <<>>
  /\ counts = NoCounts
  /\ varList = <<>>
  /\ idx = 0
  /\ results = <<>>
  /\ savedCount = 0
  /\ lastInput = NoInput
  /\ lastIdx = 0
  /\ ScanIdle
  /\ SyncIdle
  /\ tree = <<>>
  /\ walkStack = <<>>
  /\ walkLog = <<>>
  /\ folders \in FolderLists
  /\ phases = [i \in 1..(IF folders = <<>> THEN 1 ELSE Len(folders)) |->
                 Waiting]
  /\ mainIdx = 0
  /\ awaiting = FALSE
  /\ totalSaved = 0
  /\ PasteIdle
  /\ SummaryIdle

\* What an action of main leaves alone.
MainFrame ==
  UNCHANGED <<fileVars, calls, arg, foundVars, existingEnv, counts, varList,
              idx, results, savedCount, lastInput, lastIdx, scanVars,
              syncVars, tree, walkStack, walkLog, folders>>

\* if (folders.length === 0): processFolder(cwd, isDeepScan, null) alone.
Fallback ==
  /\ pc = "folders"
  /\ folders = <<>>
  /\ pc' = "single"
  /\ UNCHANGED mainVars
  /\ MainFrame
  /\ UNCHANGED pasteVars
  /\ UNCHANGED summaryVars

\* const selected = await askFolder(folders): all the folders, or one.
AskFolder ==
  /\ pc = "folders"
  /\ folders # <<>>
  /\ \/ /\ pc' = "all"
        /\ mainIdx' = 0
     \/ /\ pc' = "single"
        /\ mainIdx' \in 0..(Len(folders) - 1)
  /\ UNCHANGED <<phases, awaiting, totalSaved>>
  /\ MainFrame
  /\ UNCHANGED pasteVars
  /\ UNCHANGED summaryVars

\* processFolder(...) is called, and runs up to its first await: the scan
\* fails or finds nothing and the call returns, or it asks for the env file.
CallProcessFolder ==
  /\ pc \in {"all", "single"}
  /\ ~awaiting
  /\ mainIdx < Len(phases)
  /\ \E to \in {"askEnvFile", "returned"} :
       phases' = [phases EXCEPT ![mainIdx + 1] = [Waiting EXCEPT !.phase = to]]
  /\ awaiting' = TRUE
  /\ UNCHANGED <<pc, mainIdx, totalSaved>>
  /\ MainFrame
  /\ UNCHANGED pasteVars
  /\ UNCHANGED summaryVars

\* A call main resumes on whatever the call has done so far.
settledAtOnce(p) == TRUE

\* await processFolder(...): main resumes when the call has returned.
settled(p) == p.phase = "returned"

\* const result = await processFolder(...); totalSaved += result.saved; i++,
\* and the end of main: after the last folder of all, where the total is
\* shown, or after the one folder selected.
Resume ==
  /\ pc \in {"all", "single"}
  /\ awaiting
  /\ settled(phases[mainIdx + 1])
  /\ awaiting' = FALSE
  /\ mainIdx' = mainIdx + 1
  /\ totalSaved' = IF pc = "all"
                     THEN totalSaved + phases[mainIdx + 1].saved
                     ELSE totalSaved
  /\ pc' = IF pc = "single" THEN "end"
           ELSE IF mainIdx + 1 = Len(phases) THEN "total"
           ELSE pc
  /\ UNCHANGED phases
  /\ MainFrame
  /\ UNCHANGED pasteVars
  /\ UNCHANGED summaryVars

\* askEnvFile of a call is answered: parse, showScanResult, askMode.
AnswerEnvFile ==
  /\ \E i \in 1..Len(phases) :
       /\ phases[i].phase = "askEnvFile"
       /\ phases' = [phases EXCEPT ![i].phase = "askMode"]
  /\ UNCHANGED <<pc, mainIdx, awaiting, totalSaved>>
  /\ MainFrame
  /\ UNCHANGED pasteVars
  /\ UNCHANGED summaryVars

\* askMode of a call is answered: exit returns, a bulk paste writes its
\* variables at once and returns, the other modes prompt for one variable
\* after the other (or return when there is none to fill).
AnswerMode ==
  /\ \E i \in 1..Len(phases) :
       /\ phases[i].phase = "askMode"
       /\ \/ \E n \in 0..MaxVars :
               phases' = [phases EXCEPT ![i].phase = "returned",
                                        ![i].saved = n]
          \/ \E n \in 1..MaxVars :
               phases' = [phases EXCEPT ![i].phase = "prompt",
                                        ![i].left = n]
  /\ UNCHANGED <<pc, mainIdx, awaiting, totalSaved>>
  /\ MainFrame
  /\ UNCHANGED pasteVars
  /\ UNCHANGED summaryVars

\* A prompt of a call is answered: the value is written or the variable is
\* skipped, and after the last variable the call returns.
AnswerPrompt ==
  /\ \E i \in 1..Len(phases) :
       /\ phases[i].phase = "prompt"
       /\ \E written \in 0..1 :
            phases' = [phases EXCEPT
                         ![i].saved = @ + written,
                         ![i].left = @ - 1,
                         ![i].phase = IF phases[i].left = 1 THEN "returned"
                                      ELSE "prompt"]
  /\ UNCHANGED <<pc, mainIdx, awaiting, totalSaved>>
  /\ MainFrame
  /\ UNCHANGED pasteVars
  /\ UNCHANGED summaryVars

NextMain ==
  \/ Fallback
  \/ AskFolder
  \/ CallProcessFolder
  \/ Resume
  \/ AnswerEnvFile
  \/ AnswerMode
  \/ AnswerPrompt

SpecMain == InitMain /\ [][NextMain]_vars

(***************************************************************************)
(* Properties of the loop over the folders.                                *)
(***************************************************************************)
\* The calls of processFolder in progress.
ActiveFolders == {i \in 1..Len(phases) : phases[i].phase \in ActivePhases}

\* C24: with all the folders selected they are processed one at a time in
\* discovery order: a folder is started only when every folder before it
\* has returned, so at most one call of processFolder is in progress.
C24_OneFolderAtATime ==
  (pc \in {"all", "total"}) =>
    /\ Cardinality(ActiveFolders) <= 1
    /\ \A i \in 1..Len(phases) : \A j \in 1..Len(phases) :
         (i < j /\ phases[j].phase # "waiting") =>
           phases[i].phase = "returned"

\* The second of three folders is at a prompt after the first one wrote a
\* variable and returned, and the third one waits.
C24_Witness ==
  /\ pc = "all"
  /\ Len(folders) = 3
  /\ phases[1].phase = "returned"
  /\ phases[1].saved = 1
  /\ totalSaved = 1
  /\ phases[2].phase = "prompt"
  /\ phases[3].phase = "waiting"

(***************************************************************************)
(* parseBulkInput, askBulkPaste (ui.js) and the bulk mode of processFolder *)
(* (index.js).                                                             *)
(***************************************************************************)
\* s.indexOf(lit) for a string lit: 0-based index of the first occurrence,
\* -1 when there is none.
indexOfStr(s, lit) ==
  IF \E p \in 1..Len(s) : hasAt(s, p, lit)
  THEN (CHOOSE p \in 1..Len(s) :
          /\ hasAt(s, p, lit)
          /\ \A q \in 1..(p - 1) : ~hasAt(s, q, lit)) - 1
  ELSE -1

\* raw.split(/\r?\n/): a carriage return before a newline goes with it.
splitCrLf(raw) ==
  LET lines == split(raw)
  IN  [i \in 1..Len(lines) |->
         IF i < Len(lines) /\ endsWith(lines[i], CR)
         THEN SubSeq(lines[i], 1, Len(lines[i]) - 1)
         ELSE lines[i]]

\* /^[A-Za-z_][A-Za-z0-9_]*$/.test(key)
isBulkKey(key) ==
  /\ key # <<>>
  /\ key[1] \in Range(Upper) \cup Range(Lower) \cup {"_"}
  /\ \A i \in 2..Len(key) : key[i] \in WordChars

\* The line is not skipped by parseBulkInput: not blank, not a # or //
\* comment, it holds an "=", and its key is a valid name.
bulkLineIsEntry(rawLine) ==
  LET line == trim(rawLine)
  IN  /\ line # <<>>
      /\ ~startsWith(line, HASH)
      /\ ~hasAt(line, 1, <<"/", "/">>)
      /\ indexOf(line, EQ) # -1
      /\ isBulkKey(lineKey(rawLine))

\* The value parseBulkInput keeps for a line: one layer of quotes removed,
\* then cut at the first " #".
bulkLineValue(rawLine) ==
  LET value == lineValue(rawLine)
      commentIdx == indexOfStr(value, <<SP, HASH>>)
  IN  IF commentIdx > -1 THEN trim(substring(value, 0, commentIdx))
      ELSE value

RECURSIVE parseBulkLines(_, _)
parseBulkLines(lines, result) ==
  IF lines = <<>> THEN result
  ELSE parseBulkLines(Tail(lines),
                      IF bulkLineIsEntry(lines[1])
                      THEN mapSet(result, lineKey(lines[1]),
                                  bulkLineValue(lines[1]))
                      ELSE result)

\* parseBulkInput(raw)
parseBulkInput(raw) == parseBulkLines(splitCrLf(raw), <<>>)

\* The lines readline hands to askBulkPaste that end up in collectedLines:
\* blank lines before the first line are passed over, and a blank line
\* after it ends the paste.
RECURSIVE collectLines(_, _)
collectLines(typed, collected) ==
  IF typed = <<>> THEN collected
  ELSE IF trim(typed[1]) = <<>>
    THEN IF collected = <<>> THEN collectLines(Tail(typed), collected)
         ELSE collected
  ELSE collectLines(Tail(typed), Append(collected, typed[1]))

\* The lines a paste is made of: two plain entries, one with an inline
\* comment, a // comment, a key that is not a name, an empty key, a quoted
\* value with " #" inside, and a blank line.
BulkLines ==
  {<<"K", "A", EQ, "1">>,
   <<"K", "B", EQ, "2", SP, HASH, "c">>,
   <<"/", "/", "K", "A", EQ, "3">>,
   <<"K", "-", "B", EQ, "4">>,
   <<EQ, "5">>,
   <<"K", "A", EQ, DQ, "a", SP, HASH, "b", DQ>>,
   <<>>}

\* The env file at the start of the bulk mode.
BulkFiles ==
  {[exists |-> FALSE, content |-> <<>>],
   [exists |-> TRUE, content |-> <<HASH, "c", NL, "K", "A", EQ, "0", NL>>]}

InitBulk ==
  /\ \E f \in BulkFiles :
       /\ fileExists = f.exists
       /\ fileContent = f.content
       /\ existingEnv = parseExistingEnv(f.exists, f.content)
  /\ prevExists = FALSE
  /\ prevContent = <<>>
  /\ lastVars = <<>>
  /\ ret = -1
  /\ calls = 0
  /\ arg = <<>>
  /\ pc = "bulk"
  /\ foundVars = <<>>
  /\ counts = NoCounts
  /\ varList = <<>>
  /\ idx = 0
  /\ results = <<>>
  /\ savedCount = 0
  /\ lastInput = NoInput
  /\ lastIdx = 0
  /\ ScanIdle
  /\ SyncIdle
  /\ WalkIdle
  /\ MainIdle
  /\ PasteIdle
  /\ SummaryIdle

\* const bulkVars = await askBulkPaste(): the lines are collected and
\* joined, parsed, shown and confirmed; the call resolves with the parsed
\* Map, or with null when nothing was pasted, nothing was parsed or the
\* confirmation was declined.
AskBulkPaste ==
  /\ pc = "bulk"
  /\ pasted = <<>>
  /\ \E typed \in SeqsUpTo(BulkLines, MaxLines) : \E confirm \in BOOLEAN :
       LET content == join(collectLines(typed, <<>>))
           parsed  == parseBulkInput(content)
       IN  /\ trim(content) # <<>>
           /\ pasted' = content
           /\ bulkVars' = IF parsed # <<>> /\ confirm THEN parsed ELSE <<>>
           /\ pc' = "pasted"
  /\ UNCHANGED <<fileVars, calls, arg, foundVars, existingEnv, counts,
                 varList, idx, results, savedCount, lastInput, lastIdx>>
  /\ UNCHANGED <<scanVars, syncVars, walkVars, mainVars, summaryVars>>

\* askBulkPaste resolves with null when nothing was pasted at all.
AskBulkPasteEmpty ==
  /\ pc = "bulk"
  /\ pasted = <<>>
  /\ pc' = "pasted"
  /\ UNCHANGED pasteVars
  /\ UNCHANGED <<fileVars, calls, arg, foundVars, existingEnv, counts,
                 varList, idx, results, savedCount, lastInput, lastIdx>>
  /\ UNCHANGED <<scanVars, syncVars, walkVars, mainVars, summaryVars>>

\* The rest of the bulk mode: with nothing to write showSummary(0), else
\* writeEnvFile with the whole Map, syncToEnvExample with its keys, and
\* showSummary(savedCount).
BulkWrite ==
  /\ pc = "pasted"
  /\ pc' = "returned"
  /\ IF bulkVars = <<>>
       THEN /\ reported' = 0
            /\ UNCHANGED <<fileVars, syncVars, savedCount>>
       ELSE /\ WriteCall(bulkVars)
            /\ savedCount' = ret'
            /\ syncCall(folder, keysList(bulkVars))
            /\ reported' = ret'
            /\ UNCHANGED folder
  /\ UNCHANGED <<calls, arg, foundVars, existingEnv, counts, varList, idx,
                 results, lastInput, lastIdx>>
  /\ UNCHANGED <<scanVars, walkVars, mainVars, pasteVars>>

NextBulk == AskBulkPaste \/ AskBulkPasteEmpty \/ BulkWrite

SpecBulk == InitBulk /\ [][NextBulk]_vars

(***************************************************************************)
(* Properties of the bulk mode.                                            *)
(***************************************************************************)
\* Two Maps hold the same keys with the same values.
SameMapping(a, b) ==
  /\ mapKeys(a) = mapKeys(b)
  /\ \A k \in mapKeys(a) : mapGet(a, k) = mapGet(b, k)

\* C26: the mapping parseBulkInput makes of a pasted text, which is written
\* as one batch, is the mapping parseExistingEnv makes of a file with the
\* same text.
C26_BulkParsesAsFile ==
  (pc = "returned" /\ bulkVars # <<>>) =>
    /\ SameMapping(bulkVars, parseExistingEnv(TRUE, pasted))
    /\ lastVars = bulkVars

(***************************************************************************)
(* The Map in memory against the file on disk.                             *)
(***************************************************************************)
\* The value can be the answer to a prompt: promptForValues trims the
\* answer, and an answer is one line.
Typeable(v) == trim(v) = v /\ \A i \in 1..Len(v) : v[i] # NL

\* C27: after a value is accepted for a key, the value existingEnv holds
\* for the key is the value parseExistingEnv reads for it from the file as
\* it is on disk.
C27_MemoryIsReparse ==
  (HasWritten /\ Typeable(arg)) =>
    LET onDisk == parseExistingEnv(fileExists, fileContent)
    IN  \A k \in mapKeys(lastVars) :
          /\ mapHas(existingEnv, k)
          /\ mapHas(onDisk, k)
          /\ mapGet(existingEnv, k) = mapGet(onDisk, k)

(***************************************************************************)
(* The summary of an interactive session.                                  *)
(***************************************************************************)
\* C28: the saved count showSummary reports at the end of an interactive
\* session is the number of variables in the Map promptForValues returned.
C28_ReportedIsResultSize ==
  (pc = "returned") => (reported = Len(results))

(***************************************************************************)
(* The command words of the value prompt.                                  *)
(***************************************************************************)
\* The words the value prompt takes as commands that store nothing.
CommandWords ==
  {<<"s", "k", "i", "p">>, <<"b", "a", "c", "k">>, <<"l", "i", "s", "t">>,
   <<"h", "e", "l", "p">>, <<"?">>, <<"e", "x", "i", "t">>,
   <<"q", "u", "i", "t">>, <<"s", "k", "i", "p", "a", "l", "l">>}

\* The clear command.
ClearWord == <<"c", "l", "e", "a", "r">>

\* No value of the Map m is a command word or clear, in any case and with
\* white space around.
NoCommandValue(m) ==
  \A i \in 1..Len(m) :
    toLowerCase(trim(m[i].value)) \notin CommandWords \cup {ClearWord}

\* C29: an answer that is a command word after trimming and lower-casing
\* stores nothing, an answer of clear stores the empty string, and so no
\* value stored by an answer is one of these words.
C29_CommandsNeverStored ==
  /\ [](NoCommandValue(results) /\ (HasWritten => NoCommandValue(lastVars)))
  /\ [][(pc = "prompt" /\ toLowerCase(trim(lastInput')) \in CommandWords) =>
          UNCHANGED <<fileExists, fileContent, existingEnv, results,
                      savedCount>>]_vars
  /\ [][(pc = "prompt" /\ toLowerCase(trim(lastInput')) = ClearWord
           /\ pc' # "failed") =>
          /\ lastVars' = <<[key |-> varList[idx + 1], value |-> <<>>]>>
          /\ mapGet(results', varList[idx + 1]) = <<>>]_vars

\* C29 witness: BACK with a space in front was answered at the second
\* variable after clear had stored the empty value for KA, which the file
\* held with the value 1.
C29_Witness ==
  /\ pc = "prompt"
  /\ lastInput = <<SP, "B", "A", "C", "K">>
  /\ lastIdx = 1
  /\ idx = 0
  /\ results = <<[key |-> KA, value |-> <<>>]>>
  /\ lastVars = <<[key |-> KA, value |-> <<>>]>>
  /\ \E j \in LinesOfKey(OldLines, KA) : lineValue(OldLines[j]) = <<"1">>

====
